---- MODULE Spec2Model ----
(***************************************************************************)
(* Instrument pricing and Greeks engine with its portfolio aggregation     *)
(* layer (backend/app/services).                                           *)
(*                                                                         *)
(* Numbers.  The Python code computes in IEEE doubles.  Here every real is *)
(* an integer on a grid: spot, strike, barrier and prices in price ticks;  *)
(* vol, rate and dividend yield in units of one finite-difference bump;    *)
(* time in quarters of the finite-difference time bump.  exp, log, sqrt    *)
(* and the normal CDF are monotone fixed-point surrogates (scale 100),     *)
(* division is floor division.  Control flow, validation order, the        *)
(* sequence of price evaluations and the handling of the random draws are  *)
(* those of the source.                                                    *)
(***************************************************************************)
EXTENDS Integers, Sequences, FiniteSets, TLC

\* ------------------------------------------------------------------- state
VARIABLE calls     \* top-level calls started so far

\* ------------------------------------------------------------------ bounds
MaxLegs == 3
MaxCalls == 2
MaxRuns == 3

\* --------------------------------------------------------------- numerics
Max(a, b) == IF a >= b THEN a ELSE b
Min(a, b) == IF a <= b THEN a ELSE b

\* math.exp on the fixed-point grid: exp(x/100)*100, first order, positive.
Exp(x) == Max(100 + x, 1)

\* math.sqrt on the integer grid (floor).
Sqrt(n) == CHOOSE r \in 0..n : r * r <= n /\ (r + 1) * (r + 1) > n

\* math.log(a / b) * 100, first order; the caller has checked a > 0, b > 0.
Log(a, b) == ((a - b) * 100) \div b

\* math.erf(x / sqrt(2)) in percent: odd, monotone, clipped to [-100, 100].
Erf(x) == IF x >= 0 THEN 2 * Min(50, x \div 4) ELSE -(2 * Min(50, (-x) \div 4))

\* A distribution function that rounds down on both sides of 0, so that
\* norm_cdf(x) + norm_cdf(-x) falls short of 1.
norm_cdf_floor(x) == Max(0, Min(100, 50 + x \div 4))

\* stats.norm_cdf in percent: 0.5 * (1 + erf), 50 at 0, within [0, 100].
norm_cdf(x) == (100 + Erf(x)) \div 2

\* stats.norm_pdf in percent: symmetric bump, 40 at 0.
norm_pdf(x) == Max(0, 40 - (IF x >= 0 THEN x ELSE -x) \div 8)

RECURSIVE SumF(_, _)
SumF(f, n) == IF n = 0 THEN 0 ELSE f[n] + SumF(f, n - 1)

\* ---------------------------------------------------- results of a pricer
\* rng: what the pricer did with random draws: "none" (returned or raised
\* before reaching them), "generated" (own generator from the seed),
\* "supplied" (validated and used the arrays it was given).
Ok(v) == [ok |-> TRUE, val |-> v, err |-> "", rng |-> "none"]
Err(m) == [ok |-> FALSE, val |-> 0, err |-> m, rng |-> "none"]
OkRng(v, how) == [ok |-> TRUE, val |-> v, err |-> "", rng |-> how]

Intrinsic(option_type, spot, strike) ==
    IF option_type = "call" THEN Max(0, spot - strike) ELSE Max(0, strike - spot)

\* ------------------------------------------------- numpy random generator
\* A generator whose state does not come from the seed alone.
default_rng_unseeded(seed) == (seed + calls) % 16

\* np.random.default_rng(seed): a generator whose stream is a function of
\* the seed alone.  The stream is a full-period congruential sequence.
default_rng(seed) == seed % 16
RngNext(g) == (5 * g + 3) % 16

RECURSIVE RngAdvance(_, _)
RngAdvance(g, n) == IF n <= 0 THEN g ELSE RngAdvance(RngNext(g), n - 1)

NormalOf(g) == (g % 5) - 2
UniformOf(g) == (g * 100) \div 16

\* The absent array (Python None).
None == [shape |-> <<>>, data |-> <<>>]

\* rng.standard_normal((rows, cols)); consumes rows*cols numbers.
standard_normal(g, rows, cols) ==
    [shape |-> <<rows, cols>>,
     data |-> [p \in 1..rows |-> [i \in 1..cols |->
                  NormalOf(RngAdvance(g, (p - 1) * cols + i))]]]

\* rng.random((rows, cols)), drawn after the normals from the same generator.
random(g, rows, cols) ==
    [shape |-> <<rows, cols>>,
     data |-> [p \in 1..rows |-> [i \in 1..cols |->
                  UniformOf(RngAdvance(g, (p - 1) * cols + i))]]]

\* ------------------------------------------------------------- forward.py
\* The forward value discounted whatever the time to expiry.
forward_value_no_expiry(spot, strike, rate, dividend_yield, time_to_expiry) ==
    IF spot <= 0 \/ strike <= 0 THEN Err("spot and strike must be > 0")
    ELSE Ok((spot * Exp(-(dividend_yield * time_to_expiry))
             - strike * Exp(-(rate * time_to_expiry))) \div 100)

forward_value(spot, strike, rate, dividend_yield, time_to_expiry) ==
    IF spot <= 0 \/ strike <= 0 THEN Err("spot and strike must be > 0")
    ELSE IF time_to_expiry <= 0 THEN Ok(spot - strike)
    ELSE LET disc_r == Exp(-(rate * time_to_expiry))
             disc_q == Exp(-(dividend_yield * time_to_expiry))
         IN  Ok((spot * disc_q - strike * disc_r) \div 100)

\* ------------------------------------------------------- black_scholes.py
Greeks(d, g, v, t, r) == [delta |-> d, gamma |-> g, vega |-> v, theta |-> t, rho |-> r]

BSResult(p, g) == [ok |-> TRUE, val |-> p, err |-> "", rng |-> "none", greeks |-> g]
BSError(m) == [ok |-> FALSE, val |-> 0, err |-> m, rng |-> "none",
               greeks |-> Greeks(0, 0, 0, 0, 0)]

price_and_greeks(option_type, spot, strike, rate, dividend_yield, vol, time_to_expiry) ==
    IF time_to_expiry <= 0 THEN
        LET delta == IF option_type = "call" /\ spot > strike THEN 1
                     ELSE IF option_type = "put" /\ spot < strike THEN -1 ELSE 0
        IN  BSResult(Intrinsic(option_type, spot, strike), Greeks(delta, 0, 0, 0, 0))
    ELSE IF vol <= 0 THEN BSError("vol must be > 0")
    \* math.log(spot / strike): ZeroDivisionError, or ValueError for a ratio <= 0
    ELSE IF strike = 0 THEN BSError("float division by zero")
    ELSE IF (spot <= 0 /\ strike > 0) \/ (spot >= 0 /\ strike < 0) THEN BSError("math domain error")
    ELSE
        LET sqrtT == Sqrt(time_to_expiry)
            T == time_to_expiry
            logSK == IF spot > 0 THEN Log(spot, strike) ELSE Log(-spot, -strike)
            d1 == (logSK + (rate - dividend_yield + (vol * vol) \div 2) * T) \div (vol * sqrtT)
            d2 == d1 - vol * sqrtT
            disc_r == Exp(-(rate * T))
            disc_q == Exp(-(dividend_yield * T))
            Nd1 == norm_cdf(d1)
            Nd2 == norm_cdf(d2)
            Nmd1 == norm_cdf(-d1)
            Nmd2 == norm_cdf(-d2)
            pdf_d1 == norm_pdf(d1)
            gamma == (disc_q * pdf_d1) \div (spot * vol * sqrtT)
            vega == (spot * disc_q * pdf_d1 * sqrtT) \div 10000
        IN  IF option_type = "call" THEN
                BSResult((spot * disc_q * Nd1 - strike * disc_r * Nd2) \div 10000,
                         Greeks((disc_q * Nd1) \div 100, gamma, vega,
                                (-((spot * disc_q * pdf_d1 * vol) \div (2 * sqrtT))
                                 - rate * strike * disc_r * Nd2
                                 + dividend_yield * spot * disc_q * Nd1) \div 10000,
                                (strike * T * disc_r * Nd2) \div 10000))
            ELSE
                BSResult((strike * disc_r * Nmd2 - spot * disc_q * Nmd1) \div 10000,
                         Greeks((disc_q * (Nd1 - 100)) \div 100, gamma, vega,
                                (-((spot * disc_q * pdf_d1 * vol) \div (2 * sqrtT))
                                 + rate * strike * disc_r * Nmd2
                                 - dividend_yield * spot * disc_q * Nmd1) \div 10000,
                                (-(strike * T * disc_r * Nmd2)) \div 10000))

\* Equal strikes pass the check of the strikes.
call_spread_equal_strikes(spot, strike_long, strike_short, rate, dividend_yield, vol, time_to_expiry) ==
    IF strike_short < strike_long THEN BSError("strike_short must be > strike_long")
    ELSE
        LET long_call == price_and_greeks("call", spot, strike_long, rate, dividend_yield, vol, time_to_expiry)
            short_call == price_and_greeks("call", spot, strike_short, rate, dividend_yield, vol, time_to_expiry)
        IN  IF ~long_call.ok THEN long_call
            ELSE IF ~short_call.ok THEN short_call
            ELSE BSResult(long_call.val - short_call.val,
                          Greeks(long_call.greeks.delta - short_call.greeks.delta,
                                 long_call.greeks.gamma - short_call.greeks.gamma,
                                 long_call.greeks.vega - short_call.greeks.vega,
                                 long_call.greeks.theta - short_call.greeks.theta,
                                 long_call.greeks.rho - short_call.greeks.rho))

call_spread_price_and_greeks(spot, strike_long, strike_short, rate, dividend_yield, vol, time_to_expiry) ==
    IF strike_short <= strike_long THEN BSError("strike_short must be > strike_long")
    ELSE
        LET long_call == price_and_greeks("call", spot, strike_long, rate, dividend_yield, vol, time_to_expiry)
            short_call == price_and_greeks("call", spot, strike_short, rate, dividend_yield, vol, time_to_expiry)
        IN  IF ~long_call.ok THEN long_call
            ELSE IF ~short_call.ok THEN short_call
            ELSE BSResult(long_call.val - short_call.val,
                          Greeks(long_call.greeks.delta - short_call.greeks.delta,
                                 long_call.greeks.gamma - short_call.greeks.gamma,
                                 long_call.greeks.vega - short_call.greeks.vega,
                                 long_call.greeks.theta - short_call.greeks.theta,
                                 long_call.greeks.rho - short_call.greeks.rho))

\* ------------------------------------------------------------- digital.py
digital_cash_or_nothing_price(option_type, spot, strike, rate, dividend_yield, vol, time_to_expiry, payout) ==
    IF payout <= 0 THEN Err("payout must be > 0")
    ELSE IF time_to_expiry <= 0 THEN
        IF option_type = "call" THEN Ok(IF spot > strike THEN payout ELSE 0)
        ELSE Ok(IF spot < strike THEN payout ELSE 0)
    ELSE IF spot <= 0 \/ strike <= 0 THEN Err("spot and strike must be > 0")
    ELSE IF vol <= 0 THEN Err("vol must be > 0")
    ELSE
        LET T == time_to_expiry
            sqrtT == Sqrt(T)
            d2 == (Log(spot, strike) + (rate - dividend_yield - (vol * vol) \div 2) * T)
                      \div (vol * sqrtT)
            disc == Exp(-(rate * T))
            prob == IF option_type = "call" THEN norm_cdf(d2) ELSE norm_cdf(-d2)
        IN  Ok((payout * disc * prob) \div 10000)

\* ------------------------------------------------------------ binomial.py
\* x * f for a fixed-point factor f (scale 100).
MulFix(x, f) == (x * f) \div 100

\* spot * (u**j) * (d**(n - j))
RECURSIVE NodeSpot(_, _, _, _, _)
NodeSpot(spot, u, d, j, n) ==
    IF j > 0 THEN NodeSpot(MulFix(spot, u), u, d, j - 1, n - 1)
    ELSE IF n > 0 THEN NodeSpot(MulFix(spot, d), u, d, 0, n - 1)
    ELSE spot

\* Risk-neutral probability in percent, clamped to [0, 100].
ClampP(p) == IF ~(0 <= p /\ p <= 100) THEN Min(100, Max(0, p)) ELSE p

\* The node keeps its continuation value, exercise or not.
NodeValueNoExercise(american, intrinsic, continuation) ==
    continuation

\* "values[j] = max(intrinsic, continuation) if american else continuation"
NodeValue(american, intrinsic, continuation) ==
    IF american THEN Max(intrinsic, continuation) ELSE continuation

\* The lower neighbour is read one place too low: for j >= 1 the entry the
\* loop has just overwritten with its value at level i.
ContinuationOverwritten(c, values, j) ==
    (c.disc * (c.p * values[j + 2] + (100 - c.p) * values[IF j >= 1 THEN j ELSE j + 1]))
        \div 10000

\* "continuation = disc * (p * values[j + 1] + (1.0 - p) * values[j])"
Continuation(c, values, j) ==
    (c.disc * (c.p * values[j + 2] + (100 - c.p) * values[j + 1])) \div 10000

\* The inner loop "for j in range(i + 1)" on the single array `values`
\* (values[j] of the source is values[j + 1] here).
RECURSIVE InductionRow(_, _, _, _)
InductionRow(c, values, i, j) ==
    IF j > i THEN values
    ELSE LET continuation == Continuation(c, values, j)
             s == NodeSpot(c.spot, c.u, c.d, j, i)
             intrinsic == Intrinsic(c.option_type, s, c.strike)
             v == NodeValue(c.american, intrinsic, continuation)
         IN  InductionRow(c, [values EXCEPT ![j + 1] = v], i, j + 1)

\* The outer loop "for i in range(steps - 1, -1, -1)".
RECURSIVE BackwardInduction(_, _, _)
BackwardInduction(c, values, i) ==
    IF i < 0 THEN values
    ELSE BackwardInduction(c, InductionRow(c, values, i, 0), i - 1)

\* dt, u, d, disc and a of the lattice.  A step too short for the number
\* system gives u = d = 1.
Lattice(rate, dividend_yield, vol, time_to_expiry, steps) ==
    LET dt == time_to_expiry \div steps
        u == Exp(vol * Sqrt(dt))
    IN  [u |-> u, d |-> 10000 \div u, disc |-> Exp(-(rate * dt)),
         a |-> Exp((rate - dividend_yield) * dt)]

\* p = (a - d) / (u - d), before the clamp.
RawP(l) == ((l.a - l.d) * 100) \div (l.u - l.d)

binomial_crr_price(option_type, spot, strike, rate, dividend_yield, vol, time_to_expiry, steps, american) ==
    IF steps < 1 THEN Err("steps must be >= 1")
    ELSE IF spot <= 0 \/ strike <= 0 THEN Err("spot and strike must be > 0")
    ELSE IF time_to_expiry <= 0 THEN Ok(Intrinsic(option_type, spot, strike))
    ELSE IF vol <= 0 THEN Err("vol must be > 0")
    ELSE
        LET l == Lattice(rate, dividend_yield, vol, time_to_expiry, steps)
            u == l.u
            d == l.d
        IN  \* (a - d) / (u - d) with u = d: ZeroDivisionError
            IF u = d THEN Err("float division by zero")
            ELSE
            LET p == ClampP(RawP(l))
                c == [option_type |-> option_type, spot |-> spot, strike |-> strike,
                      u |-> u, d |-> d, disc |-> l.disc, p |-> p, american |-> american]
                terminal == [j \in 1..(steps + 1) |->
                                Intrinsic(option_type, NodeSpot(spot, u, d, j - 1, steps),
                                          strike)]
            IN  Ok(BackwardInduction(c, terminal, steps - 1)[1])

\* --------------------------------------------------------------- asian.py
asian_geometric_continuous_price(option_type, spot, strike, rate, dividend_yield, vol, time_to_expiry) ==
    IF spot <= 0 \/ strike <= 0 THEN Err("spot and strike must be > 0")
    ELSE IF vol <= 0 THEN Err("vol must be > 0")
    ELSE IF time_to_expiry <= 0 THEN Ok(Intrinsic(option_type, spot, strike))
    ELSE
        LET T == time_to_expiry
            \* m - log(strike) and v, both scaled by 100
            mK == Log(spot, strike) + ((rate - dividend_yield - (vol * vol) \div 2) * T) \div 2
            v == (vol * vol * T) \div 3
            s == Max(Sqrt(v), 1)
            disc == Exp(-(rate * T))
            \* E[G] = exp(m + v/2)
            eg == MulFix(spot, Exp(((rate - dividend_yield - (vol * vol) \div 2) * T) \div 2
                                   + v \div 2))
            d1 == (mK + v) \div s
            d2 == d1 - s
        IN  IF option_type = "call"
            THEN Ok((disc * (eg * norm_cdf(d1) - strike * norm_cdf(d2))) \div 10000)
            ELSE Ok((disc * (strike * norm_cdf(-d2) - eg * norm_cdf(-d1))) \div 10000)

\* np.cumsum(drift + diff * z, axis=1)[k] for one path (row of z).
RECURSIVE CumSum(_, _, _, _)
CumSum(zrow, drift, diff, k) ==
    IF k = 0 THEN 0 ELSE drift + diff * zrow[k] + CumSum(zrow, drift, diff, k - 1)

asian_arithmetic_mc_price(option_type, spot, strike, rate, dividend_yield, vol, time_to_expiry, fixings, paths, seed, z) ==
    IF spot <= 0 \/ strike <= 0 THEN Err("spot and strike must be > 0")
    ELSE IF vol <= 0 THEN Err("vol must be > 0")
    ELSE IF time_to_expiry <= 0 THEN Ok(Intrinsic(option_type, spot, strike))
    ELSE IF fixings < 1 THEN Err("fixings must be >= 1")
    ELSE IF paths < 1 THEN Err("paths must be >= 1")
    ELSE IF z # None /\ z.shape # <<paths, fixings>> THEN Err("z has wrong shape")
    ELSE
        LET T == time_to_expiry
            dt == T \div fixings
            drift == (rate - dividend_yield - (vol * vol) \div 2) * dt
            diff == vol * Sqrt(dt)
            zz == IF z = None THEN standard_normal(default_rng(seed), paths, fixings) ELSE z
            \* s_path = exp(log(spot) + cumsum); avg = s_path.mean(axis=1)
            avg == [p \in 1..paths |->
                       SumF([k \in 1..fixings |->
                                MulFix(spot, Exp(CumSum(zz.data[p], drift, diff, k)))], fixings)
                           \div fixings]
            payoff == [p \in 1..paths |->
                          IF option_type = "call" THEN Max(avg[p] - strike, 0)
                          ELSE Max(strike - avg[p], 0)]
            mean == SumF(payoff, paths) \div paths
        IN  OkRng(MulFix(mean, Exp(-(rate * T))),
                  IF z = None THEN "generated" ELSE "supplied")

\* ------------------------------------------------------------- barrier.py
\* The flag is set from the hit of this step alone.
AliveFromHit(alive, hit) == ~hit

\* "alive &= ~hit"
Alive(alive, hit) == alive /\ ~hit

\* In Brownian-bridge mode only the crossing draw knocks a path out: the
\* hit of the discrete monitoring is dropped.
BarrierStepBridgeOnly(c, zrow, urow, i, st) ==
    LET s == st.s
        s_next == MulFix(s, Exp(c.drift + c.diff * zrow[i]))
        hit0 == IF c.dir = "up"
                THEN (s_next >= c.B) \/ (s >= c.B)
                ELSE (s_next <= c.B) \/ (s <= c.B)
        mask == IF c.dir = "up"
                THEN st.alive /\ ~hit0 /\ s < c.B /\ s_next < c.B
                ELSE st.alive /\ ~hit0 /\ s > c.B /\ s_next > c.B
        ln1 == IF c.dir = "up" THEN Log(c.B, s) ELSE Log(s, c.B)
        ln2 == IF c.dir = "up" THEN Log(c.B, s_next) ELSE Log(s_next, c.B)
        p_cross == Exp(-((200 * ln1 * ln2) \div c.sigma2_dt))
        hit == IF c.bridge THEN mask /\ urow[i] < p_cross ELSE hit0
    IN  [s |-> s_next, alive |-> Alive(st.alive, hit)]

\* One pass of "for i in range(steps)" for a single path; st = [s, alive].
BarrierStep(c, zrow, urow, i, st) ==
    LET s == st.s
        s_next == MulFix(s, Exp(c.drift + c.diff * zrow[i]))
        hit0 == IF c.dir = "up"
                THEN (s_next >= c.B) \/ (s >= c.B)
                ELSE (s_next <= c.B) \/ (s <= c.B)
        mask == IF c.dir = "up"
                THEN st.alive /\ ~hit0 /\ s < c.B /\ s_next < c.B
                ELSE st.alive /\ ~hit0 /\ s > c.B /\ s_next > c.B
        ln1 == IF c.dir = "up" THEN Log(c.B, s) ELSE Log(s, c.B)
        ln2 == IF c.dir = "up" THEN Log(c.B, s_next) ELSE Log(s_next, c.B)
        p_cross == Exp(-((200 * ln1 * ln2) \div c.sigma2_dt))
        hit == IF c.bridge /\ mask THEN urow[i] < p_cross ELSE hit0
    IN  [s |-> s_next, alive |-> Alive(st.alive, hit)]

RECURSIVE BarrierPath(_, _, _, _, _)
BarrierPath(c, zrow, urow, i, st) ==
    IF i > c.steps THEN st
    ELSE BarrierPath(c, zrow, urow, i + 1, BarrierStep(c, zrow, urow, i, st))

barrier_knockout_mc_price(option_type, spot, strike, barrier_level, barrier_direction, rate, dividend_yield, vol, time_to_expiry, paths, steps, seed, brownian_bridge, z, u) ==
    IF spot <= 0 \/ strike <= 0 \/ barrier_level <= 0
        THEN Err("spot, strike, and barrier_level must be > 0")
    ELSE IF vol <= 0 THEN Err("vol must be > 0")
    ELSE IF time_to_expiry <= 0 THEN Ok(Intrinsic(option_type, spot, strike))
    ELSE IF paths < 1 \/ steps < 1 THEN Err("paths and steps must be >= 1")
    \* Immediate knock-out
    ELSE IF barrier_direction = "up" /\ spot >= barrier_level THEN Ok(0)
    ELSE IF barrier_direction = "down" /\ spot <= barrier_level THEN Ok(0)
    ELSE IF z # None /\ z.shape # <<paths, steps>> THEN Err("z has wrong shape")
    ELSE IF z # None /\ brownian_bridge /\ (u = None \/ u.shape # <<paths, steps>>)
        THEN Err("u is required with brownian_bridge and must match z")
    ELSE
        LET T == time_to_expiry
            dt == T \div steps
            rng == default_rng(seed)
            zz == IF z = None THEN standard_normal(rng, paths, steps) ELSE z
            uu == IF z = None
                  THEN (IF brownian_bridge
                        THEN random(RngAdvance(rng, paths * steps), paths, steps) ELSE u)
                  ELSE u
            c == [dir |-> barrier_direction, B |-> barrier_level, steps |-> steps,
                  drift |-> (rate - dividend_yield - (vol * vol) \div 2) * dt,
                  diff |-> vol * Sqrt(dt),
                  sigma2_dt |-> vol * vol * dt,
                  bridge |-> brownian_bridge]
            final == [p \in 1..paths |->
                         BarrierPath(c, zz.data[p], IF brownian_bridge THEN uu.data[p] ELSE <<>>,
                                     1, [s |-> spot, alive |-> TRUE])]
            payoff == [p \in 1..paths |->
                          IF final[p].alive
                          THEN (IF option_type = "call" THEN Max(final[p].s - strike, 0)
                                ELSE Max(strike - final[p].s, 0))
                          ELSE 0]
        IN  OkRng(MulFix(SumF(payoff, paths) \div paths, Exp(-(rate * T))),
                  IF z = None THEN "generated" ELSE "supplied")

\* --------------------------------------------------- instrument_pricer.py
\* params.get(key, default) on an open map (a function on the present keys).
Get(params, key, default) == IF key \in DOMAIN params THEN params[key] ELSE default

\* str(x).lower().strip()
LowerStrip(x) ==
    CASE x = "CALL" -> "call"
      [] x = " put" -> "put"
      [] x = "Up" -> "up"
      [] x = "DOWN " -> "down"
      [] OTHER -> x

\* ================================================================ facade
\* The rng_cache argument: absent (None), or a dict with optional "z", "u".
NoCache == [present |-> FALSE, z |-> None, u |-> None]
EmptyCache == [present |-> TRUE, z |-> None, u |-> None]

\* What one evaluation of price_leg_price_only yields: the pricer result,
\* the pricer it dispatched to ("none" when it raised before any pricer),
\* the rng_cache afterwards and the number of generators it constructed.
Facade(res, pricer, cache, gen) ==
    [ok |-> res.ok, val |-> res.val, err |-> res.err, rng |-> res.rng,
     pricer |-> pricer, cache |-> cache, gen |-> gen]

\* The draws are made for every evaluation and the cache is left as it was.
FillCacheNoStore(rng_cache, seed, rows, cols, with_u) ==
    IF ~rng_cache.present THEN [ok |-> TRUE, cache |-> rng_cache, gen |-> 0]
    ELSE [ok |-> rows >= 0 /\ cols >= 0, cache |-> rng_cache, gen |-> 1]

\* "z is None and rng_cache is not None": draw once and store in the cache.
\* numpy rejects a negative dimension.
FillCache(rng_cache, seed, rows, cols, with_u) ==
    IF ~rng_cache.present \/ rng_cache.z # None THEN [ok |-> TRUE, cache |-> rng_cache, gen |-> 0]
    ELSE IF rows < 0 \/ cols < 0 THEN [ok |-> FALSE, cache |-> rng_cache, gen |-> 1]
    ELSE LET rng == default_rng(seed)
         IN  [ok |-> TRUE, gen |-> 1,
              cache |-> [present |-> TRUE,
                         z |-> standard_normal(rng, rows, cols),
                         u |-> IF with_u THEN random(RngAdvance(rng, rows * cols), rows, cols)
                               ELSE rng_cache.u]]

\* The branches of price_leg_price_only, one per instrument type; m is the
\* market, ot the parsed option type.
Raise(msg, rng_cache) == Facade(Err(msg), "none", rng_cache, 0)

ForwardBranch(method, m, params, rng_cache) ==
    IF method # "discounted_forward" THEN Raise("unsupported method for forward", rng_cache)
    ELSE Facade(forward_value(m.spot, Get(params, "strike", 0), m.rate, m.dividend_yield,
                              Get(params, "time_to_expiry", 0)),
                "forward_value", rng_cache, 0)

VanillaBranch(method, m, params, ot, rng_cache) ==
    IF method = "black_scholes" THEN
        Facade(price_and_greeks(ot, m.spot, Get(params, "strike", 0), m.rate,
                                m.dividend_yield, m.vol, Get(params, "time_to_expiry", 0)),
               "price_and_greeks", rng_cache, 0)
    ELSE IF method = "binomial_crr" THEN
        Facade(binomial_crr_price(ot, m.spot, Get(params, "strike", 0), m.rate,
                                  m.dividend_yield, m.vol, Get(params, "time_to_expiry", 0),
                                  Get(params, "steps", 200), FALSE),
               "binomial_crr_price", rng_cache, 0)
    ELSE Raise("unsupported method for vanilla", rng_cache)

\* The american branch pricing on the lattice whatever the method.
AmericanBranchAnyMethod(method, m, params, ot, rng_cache) ==
    Facade(binomial_crr_price(ot, m.spot, Get(params, "strike", 0), m.rate,
                              m.dividend_yield, m.vol, Get(params, "time_to_expiry", 0),
                              Get(params, "steps", 300), TRUE),
           "binomial_crr_price", rng_cache, 0)

AmericanBranch(method, m, params, ot, rng_cache) ==
    IF method # "binomial_crr" THEN Raise("unsupported method for american", rng_cache)
    ELSE Facade(binomial_crr_price(ot, m.spot, Get(params, "strike", 0), m.rate,
                                   m.dividend_yield, m.vol, Get(params, "time_to_expiry", 0),
                                   Get(params, "steps", 300), TRUE),
                "binomial_crr_price", rng_cache, 0)

DigitalBranch(method, m, params, ot, rng_cache) ==
    IF method # "black_scholes" THEN Raise("unsupported method for digital", rng_cache)
    ELSE Facade(digital_cash_or_nothing_price(ot, m.spot, Get(params, "strike", 0), m.rate,
                                              m.dividend_yield, m.vol,
                                              Get(params, "time_to_expiry", 0),
                                              Get(params, "payout", 1)),
                "digital_cash_or_nothing_price", rng_cache, 0)

AsianBranch(method, m, params, ot, rng_cache) ==
    IF method = "geometric_closed_form" THEN
        Facade(asian_geometric_continuous_price(ot, m.spot, Get(params, "strike", 0), m.rate,
                                                m.dividend_yield, m.vol,
                                                Get(params, "time_to_expiry", 0)),
               "asian_geometric_continuous_price", rng_cache, 0)
    ELSE IF method = "arithmetic_mc" THEN
        LET fixings == Get(params, "fixings", 52)
            paths == Get(params, "paths", 30000)
            seed == Get(params, "seed", 11)
            fill == FillCache(rng_cache, seed, paths, fixings, FALSE)
        IN  IF ~fill.ok THEN
                Facade(Err("negative dimensions are not allowed"), "none", fill.cache, fill.gen)
            ELSE Facade(asian_arithmetic_mc_price(ot, m.spot, Get(params, "strike", 0), m.rate,
                                                  m.dividend_yield, m.vol,
                                                  Get(params, "time_to_expiry", 0),
                                                  fixings, paths, seed, fill.cache.z),
                        "asian_arithmetic_mc_price", fill.cache, fill.gen)
    ELSE Raise("unsupported method for asian", rng_cache)

BarrierBranch(method, m, params, ot, rng_cache) ==
    LET barrier_level == Get(params, "barrier_level", 0)
        direction == LowerStrip(Get(params, "barrier_direction", "up"))
        paths == Get(params, "paths", 20000)
        steps == Get(params, "steps", 96)
        seed == Get(params, "seed", 7)
        brownian_bridge == (method = "mc_bridge")
        fill == FillCache(rng_cache, seed, paths, steps, brownian_bridge)
    IN  IF direction \notin {"up", "down"}
            THEN Raise("barrier_direction must be 'up' or 'down'", rng_cache)
        ELSE IF method \notin {"mc_discrete", "mc_bridge"}
            THEN Raise("unsupported method for barrier", rng_cache)
        ELSE IF ~fill.ok THEN
            Facade(Err("negative dimensions are not allowed"), "none", fill.cache, fill.gen)
        ELSE Facade(barrier_knockout_mc_price(ot, m.spot, Get(params, "strike", 0),
                                              barrier_level, direction, m.rate,
                                              m.dividend_yield, m.vol,
                                              Get(params, "time_to_expiry", 0),
                                              paths, steps, seed, brownian_bridge,
                                              fill.cache.z, fill.cache.u),
                    "barrier_knockout_mc_price", fill.cache, fill.gen)

price_leg_price_only(instrument_type, method, m, params, rng_cache) ==
    LET ot == LowerStrip(Get(params, "option_type", "call"))
    IN
    IF instrument_type = "forward" THEN ForwardBranch(method, m, params, rng_cache)
    ELSE IF ot \notin {"call", "put"}
        THEN Raise("option_type must be 'call' or 'put'", rng_cache)
    ELSE IF instrument_type = "vanilla" THEN VanillaBranch(method, m, params, ot, rng_cache)
    ELSE IF instrument_type = "american" THEN AmericanBranch(method, m, params, ot, rng_cache)
    ELSE IF instrument_type = "digital" THEN DigitalBranch(method, m, params, ot, rng_cache)
    ELSE IF instrument_type = "asian" THEN AsianBranch(method, m, params, ot, rng_cache)
    ELSE IF instrument_type = "barrier" THEN BarrierBranch(method, m, params, ot, rng_cache)
    ELSE Raise("unsupported instrument_type", rng_cache)

\* ------------------------------------------------------------------ fd.py
spot_rel_bump_inv == 10000
vol_abs_bump == 1
rate_abs_bump == 1
time_abs_bump == 4

\* What finite_difference_greeks does before any evaluation.
FDEntry(spot, vol, time_to_expiry) ==
    IF spot <= 0 THEN "spot must be > 0"
    ELSE IF vol <= 0 THEN "vol must be > 0"
    ELSE IF time_to_expiry <= 0 THEN "zeros"
    ELSE "evaluate"

BumpS(spot) == Max(spot \div spot_rel_bump_inv, 1)
BumpV == Max(vol_abs_bump, 1)
BumpR == Max(rate_abs_bump, 1)
\* The time bump without the cap at half the time to expiry.
BumpTNoCap(time_to_expiry) == Max(time_abs_bump, 1)
BumpT(time_to_expiry) == Min(Max(time_abs_bump, 1), time_to_expiry \div 2)

Pt(tag, s, r, v, t) == [tag |-> tag, s |-> s, r |-> r, v |-> v, t |-> t]

\* The calls of price_fn made by finite_difference_greeks, in order.
FDPoints(spot, rate, vol, T, scheme) ==
    LET dS == BumpS(spot)
        dV == BumpV
        dR == BumpR
        dT == BumpT(T)
    IN  <<Pt("p0", spot, rate, vol, T),
          Pt("p_up", spot + dS, rate, vol, T),
          Pt("p_dn", Max(spot - dS, 1), rate, vol, T)>>
        \o (IF scheme = "central"
            THEN <<Pt("pv_up", spot, rate, vol + dV, T),
                   Pt("pv_dn", spot, rate, Max(vol - dV, 1), T)>>
            ELSE <<Pt("pv_up", spot, rate, vol + dV, T)>>)
        \o (IF scheme = "central"
            THEN <<Pt("pr_up", spot, rate + dR, vol, T),
                   Pt("pr_dn", spot, rate - dR, vol, T)>>
            ELSE <<Pt("pr_up", spot, rate + dR, vol, T)>>)
        \o <<Pt("p_shorter", spot, rate, vol, T - dT)>>

\* The Greeks from the evaluated prices p (a function on the tags).
FDGreeks(p, spot, T, scheme) ==
    LET dS == BumpS(spot)
        dV == BumpV
        dR == BumpR
        dT == BumpT(T)
        gamma == (p["p_up"] - 2 * p["p0"] + p["p_dn"]) \div (dS * dS)
    IN  IF scheme = "forward"
        THEN Greeks((p["p_up"] - p["p0"]) \div dS, gamma,
                    (p["pv_up"] - p["p0"]) \div dV,
                    (p["p_shorter"] - p["p0"]) \div dT,
                    (p["pr_up"] - p["p0"]) \div dR)
        ELSE Greeks((p["p_up"] - p["p_dn"]) \div (2 * dS), gamma,
                    (p["pv_up"] - p["pv_dn"]) \div (2 * dV),
                    (p["p_shorter"] - p["p0"]) \div dT,
                    (p["pr_up"] - p["pr_dn"]) \div (2 * dR))

ZeroGreeks == Greeks(0, 0, 0, 0, 0)

\* The central scheme for every method.
SchemeAlwaysCentral(method) == "central"

\* "forward" for the Monte Carlo methods, "central" otherwise.
Scheme(method) ==
    IF method \in {"mc_discrete", "mc_bridge", "arithmetic_mc"} THEN "forward" ELSE "central"

\* _price(s, r, v, t): a fresh market and a copy of params with the time set.
PriceFn(instrument_type, method, q, params, pt, rng_cache) ==
    price_leg_price_only(instrument_type, method,
                         [spot |-> pt.s, rate |-> pt.r, dividend_yield |-> q, vol |-> pt.v],
                         [k \in DOMAIN params \cup {"time_to_expiry"} |->
                             IF k = "time_to_expiry" THEN pt.t ELSE params[k]],
                         rng_cache)

\* price_leg_with_greeks as a function: the result of pricing one leg alone.
PricedLeg(price, greeks) == [ok |-> TRUE, price_per_unit |-> price, greeks |-> greeks, err |-> ""]
LegFailed(m) == [ok |-> FALSE, price_per_unit |-> 0, greeks |-> ZeroGreeks, err |-> m]

\* The evaluations pts[k..] of price_fn, threading the cache; stops at the
\* first one that raises.
RECURSIVE RunEvals(_, _, _, _, _, _, _, _)
RunEvals(instrument_type, method, q, params, pts, k, cache, vals) ==
    IF k > Len(pts) THEN [ok |-> TRUE, err |-> "", vals |-> vals, cache |-> cache]
    ELSE LET r == PriceFn(instrument_type, method, q, params, pts[k], cache)
         IN  IF ~r.ok THEN [ok |-> FALSE, err |-> r.err, vals |-> vals, cache |-> r.cache]
             ELSE RunEvals(instrument_type, method, q, params, pts, k + 1, r.cache,
                           [t \in DOMAIN vals \cup {pts[k].tag} |->
                               IF t = pts[k].tag THEN r.val ELSE vals[t]])

NoVals == [t \in {} |-> 0]

\* The analytic branch: Black-Scholes price and Greeks of a vanilla leg.
AnalyticLeg(market, params) ==
    LET ot == LowerStrip(Get(params, "option_type", "call"))
        res == price_and_greeks(ot, market.spot, Get(params, "strike", 0), market.rate,
                                market.dividend_yield, market.vol,
                                Get(params, "time_to_expiry", 0))
    IN  IF ot \notin {"call", "put"} THEN LegFailed("option_type must be 'call' or 'put'")
        ELSE IF ~res.ok THEN LegFailed(res.err)
        ELSE PricedLeg(res.val, res.greeks)

price_leg_with_greeks(instrument_type, method, market, params) ==
    LET spot == market.spot
        rate == market.rate
        q == market.dividend_yield
        vol == market.vol
        T == Get(params, "time_to_expiry", 0)
    IN
    IF instrument_type = "vanilla" /\ method = "black_scholes" THEN
        AnalyticLeg(market, params)
    ELSE
        LET scheme == Scheme(method)
            entry == FDEntry(spot, vol, T)
            run == IF entry = "evaluate"
                   THEN RunEvals(instrument_type, method, q, params,
                                 FDPoints(spot, rate, vol, T, scheme), 1, EmptyCache, NoVals)
                   ELSE [ok |-> TRUE, err |-> "", vals |-> NoVals, cache |-> EmptyCache]
            fd == IF entry = "evaluate" THEN FDGreeks(run.vals, spot, T, scheme) ELSE ZeroGreeks
            price0 == PriceFn(instrument_type, method, q, params,
                              Pt("price0", spot, rate, vol, T), run.cache)
        IN  IF entry \notin {"zeros", "evaluate"} THEN LegFailed(entry)
            ELSE IF ~run.ok THEN LegFailed(run.err)
            ELSE IF ~price0.ok THEN LegFailed(price0.err)
            ELSE PricedLeg(price0.val, fd)

\* ----------------------------------------------------------- portfolio.py
add_greeks(a, b) ==
    Greeks(a.delta + b.delta, a.gamma + b.gamma, a.vega + b.vega,
           a.theta + b.theta, a.rho + b.rho)

scale_greeks(g, k) ==
    Greeks(g.delta * k, g.gamma * k, g.vega * k, g.theta * k, g.rho * k)

\* The per-leg result dictionaries (absent keys hold 0 / "" / zero Greeks).
OkEntry(leg, priced) ==
    [leg_id |-> leg.leg_id, instrument_type |-> leg.instrument_type, method |-> leg.method,
     quantity |-> leg.quantity, status |-> "ok",
     price_per_unit |-> priced.price_per_unit,
     price_total |-> priced.price_per_unit * leg.quantity,
     greeks |-> priced.greeks, error |-> ""]

ErrorEntry(leg, exc) ==
    [leg_id |-> leg.leg_id, instrument_type |-> leg.instrument_type, method |-> leg.method,
     quantity |-> leg.quantity, status |-> "error",
     price_per_unit |-> 0, price_total |-> 0, greeks |-> ZeroGreeks, error |-> exc]

\* The totals taking the per-unit values without the quantity.
OnLegPricedUnscaled(acc, leg, priced) ==
    [total_price |-> acc.total_price + priced.price_per_unit,
     total_g |-> add_greeks(acc.total_g, priced.greeks),
     results |-> Append(acc.results, OkEntry(leg, priced))]

\* The try branch of the loop body: the locals after a leg has been priced.
OnLegPriced(acc, leg, priced) ==
    [total_price |-> acc.total_price + priced.price_per_unit * leg.quantity,
     total_g |-> add_greeks(acc.total_g, scale_greeks(priced.greeks, leg.quantity)),
     results |-> Append(acc.results, OkEntry(leg, priced))]

\* A failing leg that leaves no entry in the results.
OnLegErrorNoEntry(acc, leg, exc) ==
    [total_price |-> acc.total_price, total_g |-> acc.total_g, results |-> acc.results]

\* The except branch: the locals after a leg has failed.
OnLegError(acc, leg, exc) ==
    [total_price |-> acc.total_price,
     total_g |-> acc.total_g,
     results |-> Append(acc.results, ErrorEntry(leg, exc))]

\* The except branch swallowing the error in strict mode too.
ReraiseNever(is_strict) == FALSE

\* "if strict: raise"
Reraise(is_strict) == is_strict

\* scenario_grid_totals: one cell, the legs from index n down to 1.
\* float("nan"), as a number no price or shift of the model takes.
NaN == -1000000

\* a + b on floats.
FloatAdd(a, b) == IF a = NaN \/ b = NaN THEN NaN ELSE a + b

\* max(a, b) of Python: b when b > a, else a; no comparison with nan holds.
PyMax(a, b) == IF a = NaN THEN a ELSE IF b = NaN THEN a ELSE IF b > a THEN b ELSE a

CellMarket(market, ds_pct, dv, rate_shift_bps) ==
    [spot |-> market.spot + (market.spot * ds_pct) \div 100,
     rate |-> market.rate + rate_shift_bps,
     dividend_yield |-> market.dividend_yield,
     vol |-> PyMax(FloatAdd(market.vol, dv), 1)]

\* The price-only evaluation of one leg in one cell (rng_cache=None).
CellEval(m, leg) ==
    price_leg_price_only(leg.instrument_type, leg.method, m, leg.params, NoCache)

RECURSIVE CellTotal(_, _, _)
CellTotal(m, ls, n) ==
    IF n = 0 THEN 0
    ELSE LET leg == ls[n]
             r == CellEval(m, leg)
         IN  CellTotal(m, ls, n - 1)
             + (IF leg.quantity = 0 THEN 0 ELSE IF r.ok THEN r.val * leg.quantity ELSE 0)

\* The grid with a row per spot shift and a column per vol shift.
scenario_grid_by_spot(market, ls, spot_shifts_pct, vol_shifts, rate_shift_bps) ==
    [si \in 1..Len(spot_shifts_pct) |->
        [vi \in 1..Len(vol_shifts) |->
            CellTotal(CellMarket(market, spot_shifts_pct[si], vol_shifts[vi], rate_shift_bps),
                      ls, Len(ls))]]

scenario_grid_totals(market, ls, spot_shifts_pct, vol_shifts, rate_shift_bps) ==
    [vi \in 1..Len(vol_shifts) |->
        [si \in 1..Len(spot_shifts_pct) |->
            CellTotal(CellMarket(market, spot_shifts_pct[si], vol_shifts[vi], rate_shift_bps),
                      ls, Len(ls))]]

\* ================================================================= state
VARIABLES
    market,        \* the caller's market mapping
    legs,          \* the caller's list of legs
    strict,        \* the strict flag of price_portfolio_with_greeks
    pc,            \* position of the running call
    i,             \* price_portfolio_with_greeks: index of the current leg
    acc,           \* price_portfolio_with_greeks: total_price, total_g, results
    ret,           \* what the last top-level call returned or raised
    rng_cache,     \* price_leg_with_greeks: the draw cache of the running call
    k,             \* finite_difference_greeks: index of the next evaluation
    fdvals,        \* finite_difference_greeks: prices evaluated so far
    fd,            \* price_leg_with_greeks: the Greeks returned by the engine
    priced,        \* price_leg_with_greeks: the PricedLeg returned
    exc,           \* the exception in flight
    evals,         \* price evaluations made by the running leg call
    gens,          \* generators constructed by the running leg call
    cacheWriter,   \* <<call, leg>> of the evaluation that stored the cached draws
    lastEval,      \* the latest evaluation of price_leg_price_only
    mcLog,         \* every Monte Carlo price observed: [key, price]
    gridEvals,     \* the evaluations made by the last scenario_grid_totals call
    started,       \* legs whose pricing began in the running portfolio call
    runs,          \* the rows of the runs table, in insertion order
    issued,        \* what each successful endpoint call was given and returned
    resp,          \* the response of the last endpoint call
    portfolios,    \* the rows of the portfolios table, least recently updated first
    packs          \* the rows of the stress_packs table, least recently updated first

vars == <<market, legs, strict, pc, calls, i, acc, ret, rng_cache, k, fdvals, fd, priced,
          exc, evals, gens, cacheWriter, lastEval, mcLog, gridEvals, started, runs, issued,
          resp, portfolios, packs>>

library == <<portfolios, packs>>
store == <<runs, issued, resp, library>>
inputs == <<market, legs, strict>>
legLocals == <<rng_cache, k, fdvals, fd, priced, exc, evals, gens, cacheWriter>>

\* ---------------------------------------------------------------- inputs
Leg(id, it, method, qty, params) ==
    [leg_id |-> id, instrument_type |-> it, method |-> method, quantity |-> qty,
     params |-> params]

Mkt(s, r, q, v) == [spot |-> s, rate |-> r, dividend_yield |-> q, vol |-> v]

\* Legs of the portfolio runs: a closed-form leg, two Monte Carlo legs with
\* different seeds and a leg whose pricer rejects its (missing) strike.
PortfolioLegs ==
    { Leg("V", "vanilla", "black_scholes", 2,
          [option_type |-> "call", strike |-> 9500, time_to_expiry |-> 16]),
      Leg("B", "barrier", "mc_bridge", -1,
          [option_type |-> "call", strike |-> 9800, time_to_expiry |-> 16,
           barrier_level |-> 11000, barrier_direction |-> "up",
           paths |-> 2, steps |-> 2, seed |-> 3]),
      Leg("A", "asian", "arithmetic_mc", 3,
          [option_type |-> " put", strike |-> 10500, time_to_expiry |-> 4,
           paths |-> 2, fixings |-> 2, seed |-> 6]),
      Leg("F", "forward", "discounted_forward", 1,
          [time_to_expiry |-> 16]) }

PortfolioMarkets == { Mkt(10000, 3, 1, 2) }

\* Legs of the single-leg runs.  Every (instrument_type, method) pair occurs;
\* the supported pairs occur as call and put, before, at and after expiry, in,
\* at and out of the money, and (barrier legs) with the spot inside, on and
\* beyond an up or down barrier.
Types == {"forward", "vanilla", "american", "digital", "asian", "barrier", "swap"}
Methods == {"discounted_forward", "black_scholes", "binomial_crr", "geometric_closed_form",
            "arithmetic_mc", "mc_discrete", "mc_bridge", "fft"}

LegParams(ot, K, T, dir, B) ==
    [option_type |-> ot, strike |-> K, time_to_expiry |-> T,
     barrier_direction |-> dir, barrier_level |-> B,
     paths |-> 2, steps |-> 2, fixings |-> 2, seed |-> 3, payout |-> 50]

Barriers == { <<"up", 11000>>, <<"Up", 10000>>, <<"DOWN ", 9000>>, <<"down", 10500>> }

LegUniverse ==
    { Leg("L", tm[1], tm[2], 1, LegParams(x[1], x[2], x[3], b[1], b[2])) :
        tm \in Types \X Methods,
        x \in {"call", " put"} \X {9500, 10000, 10500} \X {-4, 0, 4, 16},
        b \in Barriers }

\* One representative of the barrier settings for the legs that ignore them,
\* and a single option for the pairs no branch accepts.
SingleLegs ==
    { l \in LegUniverse :
        /\ l.instrument_type # "barrier" => l.params.barrier_level = 11000
        /\ (l.instrument_type = "swap"
             \/ l.method = "fft"
             \/ (l.instrument_type = "forward") # (l.method = "discounted_forward"))
            => (l.params.option_type = "call" /\ l.params.strike = 9500
                /\ l.params.time_to_expiry \in {0, 16}) }

\* A valid market, one without volatility and one without a spot price.
SingleMarkets ==
    { Mkt(10000, 3, 1, 2), Mkt(10000, 3, 1, 1), Mkt(10000, 3, 1, 0), Mkt(0, 3, 1, 2) }


\* The lists of at most n different legs of S.
SeqsUpTo(S, n) ==
    UNION { { s \in [1..m -> S] : \A a \in 1..m : \A b \in 1..m : s[a] = s[b] => a = b } :
            m \in 0..n }

NoRet == [kind |-> "none"]
NoKey == [instrument_type |-> "none", method |-> "none", market |-> Mkt(0, 0, 0, 0),
          params |-> [time_to_expiry |-> 0]]
NoEval == [ok |-> TRUE, val |-> 0, err |-> "", rng |-> "none", pricer |-> "none",
           cache |-> NoCache, gen |-> 0, key |-> NoKey, before |-> NoCache]

\* An evaluation r of price_leg_price_only with its inputs: key and the
\* rng_cache it was given.
EvalRecord(r, key, before) ==
    [ok |-> r.ok, val |-> r.val, err |-> r.err, rng |-> r.rng, pricer |-> r.pricer,
     cache |-> r.cache, gen |-> r.gen, key |-> key, before |-> before]
ZeroAcc == [total_price |-> 0, total_g |-> ZeroGreeks, results |-> <<>>]

NoResp == [kind |-> "none"]

InitLocals ==
    /\ runs = <<>>
    /\ issued = <<>>
    /\ resp = NoResp
    /\ portfolios = <<>>
    /\ packs = <<>>
    /\ pc = "idle"
    /\ calls = 0
    /\ i = 0
    /\ acc = ZeroAcc
    /\ ret = NoRet
    /\ rng_cache = NoCache
    /\ k = 0
    /\ fdvals = NoVals
    /\ fd = ZeroGreeks
    /\ priced = LegFailed("")
    /\ exc = ""
    /\ evals = 0
    /\ gens = 0
    /\ cacheWriter = <<0, 0>>
    /\ lastEval = NoEval
    /\ mcLog = {}
    /\ gridEvals = {}
    /\ started = <<>>

Init ==
    /\ market \in PortfolioMarkets
    /\ legs \in SeqsUpTo(PortfolioLegs, MaxLegs)
    /\ strict \in BOOLEAN
    /\ InitLocals

\* --------------------------------------------------------------- actions
MCPricers == {"barrier_knockout_mc_price", "asian_arithmetic_mc_price"}

\* The log after an evaluation r at the key (type, method, market, params).
Logged(log, key, r) ==
    IF r.ok /\ r.pricer \in MCPricers THEN log \cup {[key |-> key, price |-> r.val]} ELSE log

\* The inputs of one evaluation of price_leg_price_only.
KeyOf(instrument_type, method, m, params) ==
    [instrument_type |-> instrument_type, method |-> method, market |-> m,
     params |-> [f \in DOMAIN params \cup {"time_to_expiry"} |->
                    Get(params, f, 0)]]

EvalKey(leg, pt) ==
    KeyOf(leg.instrument_type, leg.method, Mkt(pt.s, pt.r, market.dividend_yield, pt.v),
          [f \in DOMAIN leg.params \cup {"time_to_expiry"} |->
              IF f = "time_to_expiry" THEN pt.t ELSE leg.params[f]])

\* A cache that outlives the call that created it.
StaleCache == IF rng_cache.present THEN rng_cache ELSE EmptyCache

\* "rng_cache: dict = {}" at the start of the finite-difference branch.
FreshCache == EmptyCache

\* price_portfolio_with_greeks(market, legs, strict) is called.
PortfolioCall ==
    /\ pc \in {"idle", "returned", "raised"}
    /\ calls < MaxCalls
    /\ pc' = "loop"
    /\ calls' = calls + 1
    /\ i' = 1
    /\ acc' = ZeroAcc
    /\ ret' = NoRet
    /\ started' = <<>>
    /\ UNCHANGED <<store, inputs, legLocals, lastEval, mcLog, gridEvals>>

\* The loop reaches leg i and calls price_leg_with_greeks, which runs up to
\* its first evaluation of the price function.
BeginLeg ==
    /\ pc = "loop"
    /\ i <= Len(legs)
    /\ started' = Append(started, i)
    /\ evals' = 0
    /\ gens' = 0
    /\ k' = 1
    /\ fdvals' = NoVals
    /\ LET leg == legs[i]
           T == Get(leg.params, "time_to_expiry", 0)
       IN  IF leg.instrument_type = "vanilla" /\ leg.method = "black_scholes" THEN
               LET r == AnalyticLeg(market, leg.params)
               IN  /\ pc' = IF r.ok THEN "leg_ok" ELSE "leg_err"
                   /\ priced' = r
                   /\ exc' = r.err
                   /\ fd' = r.greeks
                   /\ rng_cache' = NoCache
           ELSE
               LET entry == FDEntry(market.spot, market.vol, T)
               IN  /\ rng_cache' = FreshCache
                   /\ pc' = CASE entry = "evaluate" -> "fd"
                              [] entry = "zeros" -> "base"
                              [] OTHER -> "leg_err"
                   /\ exc' = IF entry \in {"evaluate", "zeros"} THEN "" ELSE entry
                   /\ fd' = ZeroGreeks
                   /\ priced' = LegFailed("")
    /\ UNCHANGED <<store, inputs, calls, i, acc, ret, cacheWriter, lastEval, mcLog, gridEvals>>

\* _price writes the bumped expiry into the caller's mapping itself
\* ("p = params" in place of "p = dict(params)").
ParamsAfterPriceAliased(params, t) ==
    [f \in DOMAIN params \cup {"time_to_expiry"} |-> IF f = "time_to_expiry" THEN t ELSE params[f]]

\* The caller's params after _price(s, r, v, t): "p = dict(params)" copies
\* the mapping and "p['time_to_expiry'] = t" writes to the copy.
ParamsAfterPrice(params, t) ==
    params

\* The caller's market after _price(s, r, v, t): the bumped market m is a
\* new dict literal.
MarketAfterPrice(m, pt) ==
    m

\* The bookkeeping common to every evaluation r of the price function.
Evaluated(leg, pt, r) ==
    /\ market' = MarketAfterPrice(market, pt)
    /\ legs' = [legs EXCEPT ![i].params = ParamsAfterPrice(@, pt.t)]
    /\ rng_cache' = r.cache
    /\ evals' = evals + 1
    /\ gens' = gens + r.gen
    /\ cacheWriter' = IF r.gen > 0 /\ r.cache.z # None THEN <<calls, i>> ELSE cacheWriter
    /\ lastEval' = EvalRecord(r, EvalKey(leg, pt), rng_cache)
    /\ mcLog' = Logged(mcLog, EvalKey(leg, pt), r)

\* finite_difference_greeks makes its k-th call of the price function.
EvalFD ==
    /\ pc = "fd"
    /\ LET leg == legs[i]
           T == Get(leg.params, "time_to_expiry", 0)
           scheme == Scheme(leg.method)
           pts == FDPoints(market.spot, market.rate, market.vol, T, scheme)
           r == PriceFn(leg.instrument_type, leg.method, market.dividend_yield,
                        leg.params, pts[k], rng_cache)
           vals == [t \in DOMAIN fdvals \cup {pts[k].tag} |->
                       IF t = pts[k].tag THEN r.val ELSE fdvals[t]]
       IN  /\ Evaluated(leg, pts[k], r)
           /\ IF ~r.ok THEN
                  /\ pc' = "leg_err"
                  /\ exc' = r.err
                  /\ UNCHANGED <<k, fdvals, fd>>
              ELSE IF k = Len(pts) THEN
                  /\ pc' = "base"
                  /\ fd' = FDGreeks(vals, market.spot, T, scheme)
                  /\ fdvals' = vals
                  /\ UNCHANGED <<k, exc>>
              ELSE
                  /\ k' = k + 1
                  /\ fdvals' = vals
                  /\ UNCHANGED <<pc, fd, exc>>
    /\ UNCHANGED <<store, strict, calls, i, acc, ret, priced, started, gridEvals>>

\* price0 = _price(spot, rate, vol, T) and the return of PricedLeg.
EvalBase ==
    /\ pc = "base"
    /\ LET leg == legs[i]
           T == Get(leg.params, "time_to_expiry", 0)
           pt == Pt("price0", market.spot, market.rate, market.vol, T)
           r == PriceFn(leg.instrument_type, leg.method, market.dividend_yield,
                        leg.params, pt, rng_cache)
       IN  /\ Evaluated(leg, pt, r)
           /\ pc' = IF r.ok THEN "leg_ok" ELSE "leg_err"
           /\ exc' = r.err
           /\ priced' = IF r.ok THEN PricedLeg(r.val, fd) ELSE LegFailed(r.err)
    /\ UNCHANGED <<store, strict, calls, i, acc, ret, k, fdvals, fd, started, gridEvals>>

\* The rest of the try branch: scale, add to the totals, append the result.
LegOk ==
    /\ pc = "leg_ok"
    /\ acc' = OnLegPriced(acc, legs[i], priced)
    /\ i' = i + 1
    /\ pc' = "loop"
    /\ UNCHANGED <<store, inputs, calls, ret, legLocals, lastEval, mcLog, gridEvals, started>>

\* The except branch: append the error result; re-raise when strict.
LegErr ==
    /\ pc = "leg_err"
    /\ acc' = OnLegError(acc, legs[i], exc)
    /\ IF Reraise(strict)
       THEN /\ pc' = "raised"
            /\ ret' = [kind |-> "raised", error |-> exc]
            /\ i' = i
       ELSE /\ pc' = "loop"
            /\ i' = i + 1
            /\ ret' = ret
    /\ UNCHANGED <<store, inputs, calls, legLocals, lastEval, mcLog, gridEvals, started>>

\* "return total_price, total_g, results"
Return ==
    /\ pc = "loop"
    /\ i > Len(legs)
    /\ pc' = "returned"
    /\ ret' = [kind |-> "portfolio", total_price |-> acc.total_price,
               total_greeks |-> acc.total_g, per_leg_results |-> acc.results]
    /\ UNCHANGED <<store, inputs, calls, i, acc, legLocals, lastEval, mcLog, gridEvals, started>>

\* The grids a caller asks for: the base cell alone; a 2 x 3 grid around the
\* base whose shifts take the spot to 0 and the vol below 0.
GridRequests ==
    { [spot_shifts_pct |-> <<0>>, vol_shifts |-> <<0>>, rate_shift_bps |-> 0],
      [spot_shifts_pct |-> <<-100, 0, 10>>, vol_shifts |-> <<-5, 0>>, rate_shift_bps |-> 0],
      [spot_shifts_pct |-> <<0>>, vol_shifts |-> <<NaN, 0>>, rate_shift_bps |-> 0] }

\* The pricers of the model compute on numbers: at a vol that is not a
\* number only the forward pricer, which does not read the vol, is run.
Computable(g) ==
    (\E vi \in 1..Len(g.vol_shifts) : g.vol_shifts[vi] = NaN)
        => \A n \in 1..Len(legs) : legs[n].instrument_type = "forward"

\* Every evaluation scenario_grid_totals makes for the request g.
GridEvaluations(g) ==
    { EvalRecord(CellEval(CellMarket(market, g.spot_shifts_pct[si], g.vol_shifts[vi],
                                     g.rate_shift_bps), legs[n]),
                 KeyOf(legs[n].instrument_type, legs[n].method,
                       CellMarket(market, g.spot_shifts_pct[si], g.vol_shifts[vi],
                                  g.rate_shift_bps),
                       legs[n].params),
                 NoCache) :
        <<vi, si, n>> \in { t \in (1..Len(g.vol_shifts)) \X (1..Len(g.spot_shifts_pct))
                                  \X (1..Len(legs)) : legs[t[3]].quantity # 0 } }

\* scenario_grid_totals(market, legs, ...) is called and returns its grid.
ScenarioGrid ==
    /\ pc \in {"idle", "returned", "raised"}
    /\ calls < MaxCalls
    /\ \E g \in GridRequests :
        /\ Computable(g)
        /\ ret' = [kind |-> "grid", request |-> g,
                   grid |-> scenario_grid_totals(market, legs, g.spot_shifts_pct,
                                                 g.vol_shifts, g.rate_shift_bps)]
        /\ gridEvals' = GridEvaluations(g)
        /\ mcLog' = mcLog \cup { [key |-> e.key, price |-> e.val] :
                                    e \in { x \in GridEvaluations(g) :
                                               x.ok /\ x.pricer \in MCPricers } }
    /\ pc' = "returned"
    /\ calls' = calls + 1
    /\ UNCHANGED <<store, inputs, i, acc, legLocals, lastEval, started>>

\* price_leg_price_only is called on one leg with no rng_cache, as the
\* strategy builder does.
PriceOnly ==
    /\ pc \in {"idle", "returned", "raised"}
    /\ calls < MaxCalls
    /\ \E n \in 1..Len(legs) :
        LET leg == legs[n]
            r == price_leg_price_only(leg.instrument_type, leg.method, market, leg.params,
                                      NoCache)
            key == KeyOf(leg.instrument_type, leg.method, market, leg.params)
        IN  /\ lastEval' = EvalRecord(r, key, NoCache)
            /\ mcLog' = Logged(mcLog, key, r)
            /\ ret' = [kind |-> "price", ok |-> r.ok, price |-> r.val, error |-> r.err]
            /\ pc' = IF r.ok THEN "returned" ELSE "raised"
    /\ calls' = calls + 1
    /\ started' = <<>>
    /\ UNCHANGED <<store, inputs, i, acc, legLocals, gridEvals>>

Next ==
    \/ PortfolioCall
    \/ ScenarioGrid
    \/ PriceOnly
    \/ BeginLeg
    \/ EvalFD
    \/ EvalBase
    \/ LegOk
    \/ LegErr
    \/ Return

Spec == Init /\ [][Next]_vars

\* Single-leg runs: one leg of any kind on any market, valued with Greeks
\* or priced alone.
\* Monte Carlo legs that ask for a negative number of paths, at and before
\* expiry.
UnsizedLegs ==
    { Leg("L", tm[1], tm[2], 1, [LegParams("call", 9500, T, "up", 11000) EXCEPT !.paths = -1]) :
        tm \in {<<"barrier", "mc_discrete">>, <<"asian", "arithmetic_mc">>}, T \in {0, 16} }

InitLeg ==
    /\ market \in SingleMarkets
    /\ legs \in { <<l>> : l \in SingleLegs \cup UnsizedLegs }
    /\ strict = FALSE
    /\ InitLocals

NextLeg ==
    \/ PortfolioCall
    \/ PriceOnly
    \/ BeginLeg
    \/ EvalFD
    \/ EvalBase
    \/ LegOk
    \/ LegErr
    \/ Return

SpecLeg == InitLeg /\ [][NextLeg]_vars

\* ================================================================ claims
\* A leg priced alone on the caller's market.
Alone(leg) == price_leg_with_greeks(leg.instrument_type, leg.method, market, leg.params)

Failing(ls) == { n \in 1..Len(ls) : ~Alone(ls[n]).ok }

\* The list without its failing legs.
RECURSIVE WithoutFailing(_)
WithoutFailing(ls) ==
    IF ls = <<>> THEN <<>>
    ELSE (IF Alone(Head(ls)).ok THEN <<Head(ls)>> ELSE <<>>) \o WithoutFailing(Tail(ls))

\* Sum over a list of legs that all price: price_per_unit * quantity.
RECURSIVE SumPrice(_)
SumPrice(ls) ==
    IF ls = <<>> THEN 0
    ELSE Alone(Head(ls)).price_per_unit * Head(ls).quantity + SumPrice(Tail(ls))

\* Componentwise sum of Greeks * quantity.
RECURSIVE SumGreek(_, _)
SumGreek(ls, f) ==
    IF ls = <<>> THEN 0
    ELSE Alone(Head(ls)).greeks[f] * Head(ls).quantity + SumGreek(Tail(ls), f)

GreekNames == {"delta", "gamma", "vega", "theta", "rho"}

\* C1: with strict=False a leg that fails to price is reported with status
\* "error" and its message, adds nothing to the totals, and all other legs
\* are priced and summed exactly as if the failing leg were not in the list.
C1_FailingLegSkipped ==
    (ret.kind = "portfolio" /\ ~strict) =>
        /\ Len(ret.per_leg_results) = Len(legs)
        /\ \A n \in Failing(legs) :
              /\ ret.per_leg_results[n].status = "error"
              /\ ret.per_leg_results[n].error = Alone(legs[n]).err
              /\ ret.per_leg_results[n].leg_id = legs[n].leg_id
        /\ \A n \in (1..Len(legs)) \ Failing(legs) :
              /\ ret.per_leg_results[n].status = "ok"
              /\ ret.per_leg_results[n].price_per_unit = Alone(legs[n]).price_per_unit
        /\ ret.total_price = SumPrice(WithoutFailing(legs))
        /\ \A f \in GreekNames : ret.total_greeks[f] = SumGreek(WithoutFailing(legs), f)

\* A non-strict valuation returned with a failing leg between two legs that
\* priced to a non-zero amount.
C1_Witness ==
    /\ ret.kind = "portfolio"
    /\ ~strict
    /\ Len(legs) = 3
    /\ Failing(legs) = {2}
    /\ Alone(legs[1]).price_per_unit # 0
    /\ Alone(legs[3]).price_per_unit # 0
    /\ ret.per_leg_results[2].status = "error"

FirstFailing(ls) ==
    LET F == Failing(ls)
    IN  IF F = {} THEN Len(ls) + 1 ELSE CHOOSE n \in F : \A m \in F : n <= m

\* C2: with strict=True the first failing leg makes the call raise that
\* error; nothing is returned and no later leg is priced.
C2_StrictRaisesAtFirstFailure ==
    (strict /\ pc \in {"loop", "raised", "returned"} /\ started # <<>>) =>
        LET first == FirstFailing(legs)
        IN  /\ \A n \in 1..Len(started) : started[n] <= first
            /\ (ret.kind = "portfolio" => first > Len(legs))
            /\ (pc = "raised" =>
                  /\ i = first
                  /\ ret = [kind |-> "raised", error |-> Alone(legs[i]).err]
                  /\ started = [n \in 1..i |-> n])

\* A strict valuation raised at a leg that has legs before and after it.
C2_Witness ==
    /\ strict
    /\ pc = "raised"
    /\ ret.kind = "raised"
    /\ 1 < i
    /\ i < Len(legs)

\* C3: the totals are the sums, over the legs that price, of the per-unit
\* price and Greeks of the leg priced alone times its quantity, and
\* per_leg_results has one entry per input leg in input order.
C3_TotalsAreSums ==
    ret.kind = "portfolio" =>
        /\ Len(ret.per_leg_results) = Len(legs)
        /\ \A n \in 1..Len(legs) :
              /\ ret.per_leg_results[n].leg_id = legs[n].leg_id
              /\ ret.per_leg_results[n].quantity = legs[n].quantity
              /\ (ret.per_leg_results[n].status = "ok") = Alone(legs[n]).ok
              /\ Alone(legs[n]).ok =>
                    /\ ret.per_leg_results[n].price_per_unit = Alone(legs[n]).price_per_unit
                    /\ ret.per_leg_results[n].greeks = Alone(legs[n]).greeks
                    /\ ret.per_leg_results[n].price_total
                           = Alone(legs[n]).price_per_unit * legs[n].quantity
        /\ ret.total_price = SumPrice(SelectSeq(legs, LAMBDA l : Alone(l).ok))
        /\ \A f \in GreekNames :
              ret.total_greeks[f] = SumGreek(SelectSeq(legs, LAMBDA l : Alone(l).ok), f)

\* A valuation returned three priced legs with distinct ids, quantities
\* other than 1 and a non-zero total.
C3_Witness ==
    /\ ret.kind = "portfolio"
    /\ Len(legs) = 3
    /\ Failing(legs) = {}
    /\ legs[1].leg_id # legs[2].leg_id
    /\ legs[2].leg_id # legs[3].leg_id
    /\ \E n \in 1..3 : legs[n].quantity \notin {0, 1} /\ Alone(legs[n]).price_per_unit # 0
    /\ ret.total_price # 0
    /\ ret.total_greeks.vega # 0

\* ------------------------------------------------------------ C4, C5, C6
MCMethods == {"mc_discrete", "mc_bridge", "arithmetic_mc"}

\* C4: within one price_leg_with_greeks call for a Monte Carlo method the
\* draws are generated exactly once, by the first price evaluation; every
\* later evaluation of the call is handed those arrays and leaves them as
\* they are, and no pricer draws its own.
C4_DrawsGeneratedOnceAndReused ==
    [][ (pc \in {"fd", "base"} /\ evals' = evals + 1
         /\ legs[i].method \in MCMethods /\ lastEval'.pricer \in MCPricers)
        => /\ gens' = 1
           /\ rng_cache'.z # None
           /\ (legs[i].method = "mc_bridge") = (rng_cache'.u # None)
           /\ lastEval'.rng # "generated"
           /\ (evals = 0) = (gens = 0)
           /\ evals > 0 => rng_cache' = rng_cache ]_vars

C4_Witness ==
    /\ pc = "leg_ok"
    /\ legs[i].method = "mc_bridge"
    /\ evals = 7
    /\ gens = 1
    /\ rng_cache.u # None
    /\ lastEval.rng = "supplied"
    /\ priced.price_per_unit > 0

\* C5: the cache is empty when a price_leg_with_greeks call makes its first
\* evaluation, draws found in it were written by the same leg of the same
\* valuation, and scenario-grid evaluations are given no cache and get no
\* draws from one.
C5_CacheNeverShared ==
    /\ (pc \in {"fd", "base"} /\ evals = 0) => rng_cache = EmptyCache
    /\ (pc \in {"fd", "base", "leg_ok", "leg_err"} /\ rng_cache.z # None)
        => cacheWriter = <<calls, i>>
    /\ (pc \in {"fd", "base", "leg_ok", "leg_err"} /\ evals > 0 /\ lastEval.before.z # None)
        => (lastEval.before = rng_cache /\ cacheWriter = <<calls, i>>)
    /\ \A e \in gridEvals :
        e.before = NoCache /\ e.cache = NoCache /\ e.gen = 0 /\ e.rng # "supplied"

C5_Witness ==
    /\ calls = 2
    /\ i = 2
    /\ pc = "base"
    /\ Len(legs) = 2
    /\ legs[1].method \in MCMethods
    /\ legs[2].method \in MCMethods
    /\ legs[1] # legs[2]
    /\ rng_cache.z # None
    /\ cacheWriter = <<2, 2>>

\* C6: two Monte Carlo evaluations with the same instrument, method,
\* market and params (seed, paths, steps or fixings among them) return the
\* same price, whichever entry point made them and whatever ran in between.
C6_SameInputsSamePrice ==
    \A a \in mcLog : \A b \in mcLog : a.key = b.key => a.price = b.price

C6_Witness ==
    /\ calls = 2
    /\ lastEval.rng = "supplied"
    /\ lastEval.val > 0
    /\ \E e \in gridEvals :
        /\ e.key = lastEval.key
        /\ e.rng = "generated"
        /\ e.ok
        /\ e.val = lastEval.val

\* ------------------------------------------------------- C7, C8, C9, C10
\* The inputs of the last evaluation of price_leg_price_only.
LastIsEval == lastEval.key.instrument_type # "none"
LastType == lastEval.key.instrument_type
LastMethod == lastEval.key.method
LastMarket == lastEval.key.market
LastParams == lastEval.key.params

\* The leg price_leg_with_greeks has finished with, one way or the other.
LegDone == pc \in {"leg_ok", "leg_err"}

SupportedPairs ==
    { <<"forward", "discounted_forward">>, <<"vanilla", "black_scholes">>,
      <<"vanilla", "binomial_crr">>, <<"american", "binomial_crr">>,
      <<"digital", "black_scholes">>, <<"asian", "geometric_closed_form">>,
      <<"asian", "arithmetic_mc">>, <<"barrier", "mc_discrete">>,
      <<"barrier", "mc_bridge">> }

\* Everything but the volatility and the time to expiry is in its domain.
ValidButVolAndTime(m, params) ==
    /\ m.spot > 0
    /\ {"strike", "option_type", "payout", "paths", "steps", "fixings",
        "barrier_level", "barrier_direction"} \subseteq DOMAIN params
    /\ params.strike > 0
    /\ params.payout > 0
    /\ params.paths >= 1 /\ params.steps >= 1 /\ params.fixings >= 1
    /\ params.barrier_level > 0
    /\ LowerStrip(params.option_type) \in {"call", "put"}
    /\ LowerStrip(params.barrier_direction) \in {"up", "down"}

\* The value at expiry: the forward's spot less strike, the digital's
\* payout when in the money, the option's intrinsic value.
ExpiryValue(instrument_type, m, params) ==
    LET call == LowerStrip(params.option_type) = "call"
        S == m.spot
        K == params.strike
    IN  IF instrument_type = "forward" THEN S - K
        ELSE IF instrument_type = "digital"
            THEN (IF (call /\ S > K) \/ (~call /\ S < K) THEN params.payout ELSE 0)
        ELSE IF call THEN (IF S > K THEN S - K ELSE 0)
        ELSE (IF K > S THEN K - S ELSE 0)

\* The Greeks at expiry: all 0, but the Black-Scholes delta of an option in
\* the money (1 for a call, -1 for a put).
ExpiryGreeks(instrument_type, method, m, params) ==
    LET call == LowerStrip(params.option_type) = "call"
        delta == IF instrument_type = "vanilla" /\ method = "black_scholes"
                 THEN (IF call /\ m.spot > params.strike THEN 1
                       ELSE IF ~call /\ m.spot < params.strike THEN -1 ELSE 0)
                 ELSE 0
    IN  [delta |-> delta, gamma |-> 0, vega |-> 0, theta |-> 0, rho |-> 0]

\* The spot is on or beyond the barrier of a barrier leg.
KnockedOut(instrument_type, m, params) ==
    /\ instrument_type = "barrier"
    /\ \/ LowerStrip(params.barrier_direction) = "up" /\ m.spot >= params.barrier_level
       \/ LowerStrip(params.barrier_direction) = "down" /\ m.spot <= params.barrier_level

C8_VolIgnoredAtExpiry ==
    /\ (/\ LastIsEval
         /\ <<LastType, LastMethod>> \in SupportedPairs
         /\ ValidButVolAndTime(LastMarket, LastParams)
         /\ LastMarket.vol <= 0)
        => IF LastParams.time_to_expiry > 0
           THEN LastType # "forward" => (~lastEval.ok /\ lastEval.err = "vol must be > 0")
           ELSE /\ lastEval.ok
                /\ ~KnockedOut(LastType, LastMarket, LastParams)
                    => lastEval.val = ExpiryValue(LastType, LastMarket, LastParams)
    /\ (/\ LegDone
         /\ <<legs[i].instrument_type, legs[i].method>> \in SupportedPairs
         /\ ValidButVolAndTime(market, legs[i].params)
         /\ market.vol <= 0
         /\ legs[i].params.time_to_expiry <= 0)
        => /\ pc = "leg_ok"
           /\ priced.greeks = ExpiryGreeks(legs[i].instrument_type, legs[i].method, market,
                                           legs[i].params)

\* C9: with valid inputs and the spot on or beyond the barrier,
\* barrier_knockout_mc_price returns 0 without reaching its random draws,
\* whatever the time to expiry.
C9_KnockedOutIsZero ==
    (/\ LastIsEval
     /\ lastEval.pricer = "barrier_knockout_mc_price"
     /\ ValidButVolAndTime(LastMarket, LastParams)
     /\ LastMarket.vol > 0
     /\ KnockedOut(LastType, LastMarket, LastParams))
    => (lastEval.ok /\ lastEval.val = 0 /\ lastEval.rng = "none")

\* C10: an evaluation of price_leg_price_only returns a price only for a
\* supported (instrument_type, method) pair; for any other pair it raises
\* before any pricer and before any draw is generated or cached.
\* price_leg_with_greeks fails for those pairs too, and with valid inputs
\* both succeed for the supported ones.
C10_OnlySupportedPairsPrice ==
    /\ LastIsEval =>
        IF <<LastType, LastMethod>> \in SupportedPairs
        THEN (ValidButVolAndTime(LastMarket, LastParams) /\ LastMarket.vol > 0) => lastEval.ok
        ELSE /\ ~lastEval.ok
             /\ lastEval.pricer = "none"
             /\ lastEval.rng = "none"
             /\ lastEval.gen = 0
             /\ lastEval.cache = lastEval.before
    /\ LegDone =>
        IF <<legs[i].instrument_type, legs[i].method>> \in SupportedPairs
        THEN (ValidButVolAndTime(market, legs[i].params) /\ market.vol > 0) => pc = "leg_ok"
        ELSE pc = "leg_err" /\ gens = 0 /\ rng_cache.z = None /\ rng_cache.u = None

C10_Witness ==
    /\ pc = "leg_err"
    /\ legs[i].instrument_type = "american"
    /\ legs[i].method = "mc_bridge"
    /\ market.vol > 0 /\ market.spot > 0
    /\ evals = 1
    /\ exc = "unsupported method for american"
    /\ lastEval.before = EmptyCache
    /\ rng_cache = EmptyCache

\* -------------------------------------------------------------------- C11
\* params without the key f, and params with the key f set to v.
Without(params, f) == [x \in DOMAIN params \ {f} |-> params[x]]
WithField(params, f, v) == [x \in DOMAIN params \cup {f} |-> IF x = f THEN v ELSE params[x]]

\* A complete leg of every supported pair, at and before expiry, and the legs
\* made from it by leaving out one field or by spoiling its option type or
\* barrier direction.
CompleteParams == { LegParams("call", 9500, T, "up", 11000) : T \in {0, 16} }

ParamVariants(params) ==
    { params,
      Without(params, "strike"),
      Without(params, "time_to_expiry"),
      Without(params, "barrier_level"),
      WithField(params, "option_type", "straddle"),
      WithField(params, "barrier_direction", "sideways") }

ParamLegs ==
    { Leg("L", tm[1], tm[2], 1, v) :
        tm \in { <<"forward", "discounted_forward">>, <<"vanilla", "black_scholes">>,
                 <<"vanilla", "binomial_crr">>, <<"american", "binomial_crr">>,
                 <<"digital", "black_scholes">>, <<"asian", "geometric_closed_form">>,
                 <<"asian", "arithmetic_mc">>, <<"barrier", "mc_discrete">>,
                 <<"barrier", "mc_bridge">> },
        v \in UNION { ParamVariants(params) : params \in CompleteParams } }

InitParams ==
    /\ market = Mkt(10000, 3, 1, 2)
    /\ legs \in { <<l>> : l \in ParamLegs }
    /\ strict \in BOOLEAN
    /\ InitLocals

SpecParams == InitParams /\ [][NextLeg]_vars

\* The leg omits a field its instrument requires, or carries an option type
\* or barrier direction that is not one of the accepted words.
Incomplete(leg) ==
    \/ "strike" \notin DOMAIN leg.params
    \/ "time_to_expiry" \notin DOMAIN leg.params
    \/ leg.instrument_type = "barrier" /\ "barrier_level" \notin DOMAIN leg.params
    \/ /\ leg.instrument_type # "forward"
       /\ "option_type" \in DOMAIN leg.params
       /\ LowerStrip(leg.params.option_type) \notin {"call", "put"}
    \/ /\ leg.instrument_type = "barrier"
       /\ "barrier_direction" \in DOMAIN leg.params
       /\ LowerStrip(leg.params.barrier_direction) \notin {"up", "down"}

\* C11: a leg that omits strike, time_to_expiry or (barrier) barrier_level,
\* or carries an invalid option_type or barrier_direction, is never priced:
\* every evaluation of price_leg_price_only on it raises and
\* price_leg_with_greeks never returns for it.
C11_IncompleteLegNeverPriced ==
    Incomplete(legs[1]) =>
        /\ LastIsEval => ~lastEval.ok
        /\ pc # "leg_ok"

\* ------------------------------------------------- direct calls of pricers
\* A pricer is called directly with the arguments args on the market m; res
\* is what it returned or raised.
CanCall == pc \in {"idle", "returned", "raised"} /\ calls < MaxCalls

Direct(pricer, m, args, res) ==
    /\ calls' = calls + 1
    /\ lastEval' = EvalRecord(Facade(res, pricer, NoCache, 0),
                              [instrument_type |-> "direct", method |-> pricer,
                               market |-> m, params |-> args],
                              NoCache)
    /\ ret' = [kind |-> "price", ok |-> res.ok, price |-> res.val, error |-> res.err]
    /\ pc' = IF res.ok THEN "returned" ELSE "raised"
    /\ started' = <<>>
    /\ UNCHANGED <<store, inputs, i, acc, legLocals, mcLog, gridEvals>>

\* Arrays a caller may supply as z and u: none, of the shape asked for, and
\* of other shapes.
SuppliedZ == { None, standard_normal(default_rng(3), 2, 2), standard_normal(default_rng(3), 1, 2),
               standard_normal(default_rng(3), 2, 1) }
SuppliedU == { None, random(default_rng(5), 2, 2), random(default_rng(5), 2, 1) }

\* Markets of the direct Monte Carlo calls: the spot below and beyond the
\* barrier 11000, with and without volatility.
DirectMarkets == { Mkt(10000, 3, 1, 2), Mkt(12000, 3, 1, 2), Mkt(10000, 3, 1, 0) }

BarrierArgs(T, paths, steps, bridge, z, u) ==
    [option_type |-> "call", strike |-> 9500, time_to_expiry |-> T,
     barrier_level |-> 11000, barrier_direction |-> "up",
     paths |-> paths, steps |-> steps, seed |-> 3,
     brownian_bridge |-> bridge, z |-> z, u |-> u]

DirectBarrier ==
    /\ CanCall
    /\ \E m \in DirectMarkets, T \in {0, 16}, paths \in {0, 2}, steps \in {0, 2},
           bridge \in BOOLEAN, z \in SuppliedZ :
        \* u is read in Brownian-bridge mode only
        \E u \in IF bridge THEN SuppliedU ELSE {None} :
            Direct("barrier_knockout_mc_price", m, BarrierArgs(T, paths, steps, bridge, z, u),
                   barrier_knockout_mc_price("call", m.spot, 9500, 11000, "up", m.rate,
                                             m.dividend_yield, m.vol, T, paths, steps, 3,
                                             bridge, z, u))

AsianArgs(T, paths, fixings, z) ==
    [option_type |-> "put", strike |-> 10500, time_to_expiry |-> T,
     paths |-> paths, fixings |-> fixings, seed |-> 6, z |-> z]

DirectAsian ==
    /\ CanCall
    /\ \E m \in DirectMarkets, T \in {0, 16}, paths \in {0, 2}, fixings \in {0, 2},
           z \in SuppliedZ :
            Direct("asian_arithmetic_mc_price", m, AsianArgs(T, paths, fixings, z),
                   asian_arithmetic_mc_price("put", m.spot, 10500, m.rate, m.dividend_yield,
                                             m.vol, T, fixings, paths, 6, z))

\* Markets of the direct lattice calls: ordinary, with a rate that takes the
\* raw probability above 1, and with a dividend yield above the rate.
LatticeMarkets == { Mkt(10000, 3, 1, 2), Mkt(10000, 30, 1, 1), Mkt(10000, 1, 3, 5) }

BinomialArgs(ot, K, T, steps, american) ==
    [option_type |-> ot, strike |-> K, time_to_expiry |-> T, steps |-> steps,
     american |-> american]

DirectBinomial ==
    /\ CanCall
    /\ \E m \in LatticeMarkets, ot \in {"call", "put"}, K \in {9500, 10500}, T \in {0, 4, 16},
           steps \in {0, 1, 2, 8}, american \in BOOLEAN :
            Direct("binomial_crr_price", m, BinomialArgs(ot, K, T, steps, american),
                   binomial_crr_price(ot, m.spot, K, m.rate, m.dividend_yield, m.vol, T,
                                      steps, american))

VanillaMarkets == { Mkt(10000, 3, 1, 2), Mkt(10000, 1, 3, 5), Mkt(12000, 0, 0, 2), Mkt(10000, 3, 1, 0) }

DirectVanilla ==
    /\ CanCall
    /\ \E m \in VanillaMarkets, ot \in {"call", "put"}, K \in {9500, 10000, 10500, 11000},
           T \in {0, 4, 16} :
            Direct("price_and_greeks", m, [option_type |-> ot, strike |-> K, time_to_expiry |-> T],
                   price_and_greeks(ot, m.spot, K, m.rate, m.dividend_yield, m.vol, T))

DirectSpread ==
    /\ CanCall
    /\ \E m \in VanillaMarkets, K1 \in {9500, 10000, 10500}, K2 \in {9500, 10000, 10500},
           T \in {0, 4, 16} :
        LET res == call_spread_price_and_greeks(m.spot, K1, K2, m.rate, m.dividend_yield, m.vol, T)
        IN  /\ calls' = calls + 1
            /\ lastEval' = EvalRecord(Facade(res, "call_spread_price_and_greeks", NoCache, 0),
                                      [instrument_type |-> "direct",
                                       method |-> "call_spread_price_and_greeks", market |-> m,
                                       params |-> [strike_long |-> K1, strike_short |-> K2,
                                                   time_to_expiry |-> T]],
                                      NoCache)
            /\ ret' = [kind |-> "spread", ok |-> res.ok, price |-> res.val,
                       greeks |-> res.greeks, error |-> res.err]
            /\ pc' = IF res.ok THEN "returned" ELSE "raised"
            /\ started' = <<>>
            /\ UNCHANGED <<store, inputs, i, acc, legLocals, mcLog, gridEvals>>

InitDirect ==
    /\ market = Mkt(10000, 3, 1, 2)
    /\ legs = <<>>
    /\ strict = FALSE
    /\ InitLocals

NextDirect ==
    \/ DirectBarrier
    \/ DirectAsian
    \/ DirectBinomial
    \/ DirectVanilla
    \/ DirectSpread

SpecDirect == InitDirect /\ [][NextDirect]_vars

\* The last call was a direct call of the pricer.
LastDirect(pricer) ==
    LastIsEval /\ LastType = "direct" /\ LastMethod = pricer

\* -------------------------------------------------------------------- C12
\* The sizes or arrays of the last direct call are ones the pricer rejects:
\* steps, paths or fixings below 1, a z of the wrong shape, or Brownian-bridge
\* mode with a z but with u missing or of the wrong shape.
BadSizes ==
    \/ /\ LastDirect("binomial_crr_price")
       /\ LastParams.steps < 1
    \/ /\ LastDirect("barrier_knockout_mc_price")
       /\ \/ LastParams.steps < 1
          \/ LastParams.paths < 1
          \/ LastParams.z # None /\ LastParams.z.shape # <<LastParams.paths, LastParams.steps>>
          \/ /\ LastParams.brownian_bridge
             /\ LastParams.z # None
             /\ \/ LastParams.u = None
                \/ LastParams.u.shape # <<LastParams.paths, LastParams.steps>>
    \/ /\ LastDirect("asian_arithmetic_mc_price")
       /\ \/ LastParams.fixings < 1
          \/ LastParams.paths < 1
          \/ LastParams.z # None
             /\ LastParams.z.shape # <<LastParams.paths, LastParams.fixings>>

\* C12: a pricer called with steps, paths or fixings below 1, with a z of
\* the wrong shape, or in Brownian-bridge mode with a z and no matching u,
\* raises and returns no price, whatever its other inputs.
C12_BadSizesAlwaysRaise ==
    BadSizes => ~lastEval.ok

\* -------------------------------------------------------------------- C13
\* C13: the grid scenario_grid_totals returns has one row per vol shift and
\* one entry per spot shift in each row, in the order of the input lists:
\* entry [vi][si] is the total of the legs that price at vol_shifts[vi] and
\* spot_shifts_pct[si], whether or not other legs fail there.
C13_GridShape ==
    ret.kind = "grid" =>
        LET g == ret.request
        IN  /\ DOMAIN ret.grid = 1..Len(g.vol_shifts)
            /\ \A vi \in 1..Len(g.vol_shifts) :
                  /\ DOMAIN ret.grid[vi] = 1..Len(g.spot_shifts_pct)
                  /\ \A si \in 1..Len(g.spot_shifts_pct) :
                        ret.grid[vi][si]
                          = CellTotal(CellMarket(market, g.spot_shifts_pct[si], g.vol_shifts[vi],
                                                 g.rate_shift_bps), legs, Len(legs))

\* A 2 x 3 grid over a leg that fails everywhere and legs that fail only in
\* the column where the spot is 0.
C13_Witness ==
    /\ ret.kind = "grid"
    /\ Len(ret.request.vol_shifts) = 2
    /\ Len(ret.request.spot_shifts_pct) = 3
    /\ \E n \in 1..Len(legs) : legs[n].leg_id = "F"
    /\ ret.grid[1][1] = 0 /\ ret.grid[2][1] = 0
    /\ ret.grid[2][2] # 0
    /\ ret.grid[2][3] # ret.grid[2][2]
    /\ ret.grid[1][2] # ret.grid[2][2]

\* ------------------------------------------------------------ payoff_curve
\* The terminal payoff _payoff(s) of an included leg.
LegPayoff(leg, s) ==
    LET ot == LowerStrip(Get(leg.params, "option_type", "call"))
        K == Get(leg.params, "strike", 0)
    IN  IF leg.instrument_type = "forward" THEN s - K
        ELSE IF leg.instrument_type = "digital"
            THEN (IF (ot = "call" /\ s > K) \/ (ot # "call" /\ s < K)
                  THEN Get(leg.params, "payout", 1) ELSE 0)
        ELSE IF ot = "call" THEN Max(0, s - K) ELSE Max(0, K - s)

\* Every leg gets a payoff function, the path-dependent ones that of a
\* vanilla option.
ParseLegNoExclusion(leg) ==
    [included |-> TRUE, reason |-> ""]

\* One pass of the parsing loop: the leg is included, or excluded with a
\* reason.
ParseLeg(leg) ==
    LET ot == LowerStrip(Get(leg.params, "option_type", "call"))
    IN  IF leg.instrument_type \in {"barrier", "asian"}
            THEN [included |-> FALSE, reason |-> "path-dependent payoff"]
        ELSE IF leg.instrument_type \in {"vanilla", "american", "digital"}
            THEN (IF ot \notin {"call", "put"}
                  THEN [included |-> FALSE, reason |-> "invalid leg params"]
                  ELSE [included |-> TRUE, reason |-> ""])
        ELSE IF leg.instrument_type = "forward" THEN [included |-> TRUE, reason |-> ""]
        ELSE [included |-> FALSE, reason |-> "unsupported payoff type: " \o leg.instrument_type]

\* payoff_curve(legs, spots): (payoffs, included, excluded).
payoff_curve(ls, spots) ==
    LET payoff_legs == SelectSeq(ls, LAMBDA l : ParseLeg(l).included)
        drop == SelectSeq(ls, LAMBDA l : ~ParseLeg(l).included)
    IN  [payoffs |-> [n \in 1..Len(spots) |->
                        SumF([j \in 1..Len(payoff_legs) |->
                                 payoff_legs[j].quantity * LegPayoff(payoff_legs[j], spots[n])],
                             Len(payoff_legs))],
         included |-> [j \in 1..Len(payoff_legs) |-> payoff_legs[j].leg_id],
         excluded |-> [j \in 1..Len(drop) |->
                          [leg_id |-> drop[j].leg_id, reason |-> ParseLeg(drop[j]).reason]]]

\* Legs of the payoff runs: one of each instrument type, an unknown type, an
\* invalid option type, and a barrier leg that carries the id of the
\* vanilla leg.
PayoffLegs ==
    { Leg("V", "vanilla", "black_scholes", 2, LegParams("call", 9500, 16, "up", 11000)),
      Leg("M", "american", "binomial_crr", 1, LegParams(" put", 10500, 16, "up", 11000)),
      Leg("D", "digital", "black_scholes", -1, LegParams("put", 10500, 16, "up", 11000)),
      Leg("F", "forward", "discounted_forward", 1, LegParams("call", 10000, 16, "up", 11000)),
      Leg("B", "barrier", "mc_bridge", 5, LegParams("call", 9500, 16, "up", 11000)),
      Leg("A", "asian", "arithmetic_mc", 3, LegParams("put", 10500, 16, "up", 11000)),
      Leg("S", "swap", "black_scholes", 1, LegParams("call", 9500, 16, "up", 11000)),
      Leg("I", "vanilla", "black_scholes", 1, LegParams("straddle", 9500, 16, "up", 11000)),
      Leg("V", "barrier", "mc_discrete", 7, LegParams("call", 9500, 16, "up", 11000)) }

PayoffSpots == { <<>>, <<9000, 10000, 11000>> }

\* payoff_curve is called on the legs and returns.
PayoffCurve ==
    /\ pc \in {"idle", "returned"}
    /\ calls < MaxCalls
    /\ calls' = calls + 1
    /\ \E spots \in PayoffSpots :
        ret' = [kind |-> "payoff", spots |-> spots, curve |-> payoff_curve(legs, spots)]
    /\ pc' = "returned"
    /\ UNCHANGED <<store, inputs, i, acc, legLocals, lastEval, mcLog, gridEvals, started>>

InitPayoff ==
    /\ market = Mkt(10000, 3, 1, 2)
    /\ legs \in UNION { [1..m -> PayoffLegs] : m \in 0..MaxLegs }
    /\ strict = FALSE
    /\ InitLocals

NextPayoff == PayoffCurve

SpecPayoff == InitPayoff /\ [][NextPayoff]_vars

\* ------------------------------------------------------------------- C14
PathDependent(leg) == leg.instrument_type \in {"barrier", "asian"}

EntriesOf(seq) == { seq[j] : j \in 1..Len(seq) }

CountIn(seq, Test(_)) == Len(SelectSeq(seq, Test))

IsPayoff == pc = "returned" /\ ret.kind = "payoff"

LastLattice ==
    Lattice(LastMarket.rate, LastMarket.dividend_yield, LastMarket.vol,
            LastParams.time_to_expiry, LastParams.steps)

\* C16: for spot, strike, vol, time_to_expiry > 0 and steps >= 1,
\* binomial_crr_price does not raise, and the probability of the backward
\* induction is the raw value clamped to the nearest bound of [0, 1].
C16_BinomialNeverRaises ==
    (/\ LastDirect("binomial_crr_price")
     /\ LastMarket.spot > 0 /\ LastParams.strike > 0 /\ LastMarket.vol > 0
     /\ LastParams.time_to_expiry > 0 /\ LastParams.steps >= 1)
    => /\ lastEval.ok
       /\ LET raw == RawP(LastLattice)
               p == ClampP(raw)
           IN  /\ p \in 0..100
               /\ raw < 0 => p = 0
               /\ raw > 100 => p = 100
               /\ raw \in 0..100 => p = raw

\* ------------------------------------------------------------------- C17
Abs(x) == IF x >= 0 THEN x ELSE -x

\* The Black-Scholes price of the option of the other type, every other
\* input as in the last direct call.
OtherSide ==
    price_and_greeks(IF LastParams.option_type = "call" THEN "put" ELSE "call",
                     LastMarket.spot, LastParams.strike, LastMarket.rate,
                     LastMarket.dividend_yield, LastMarket.vol, LastParams.time_to_expiry)

\* spot * e^(-qT) - strike * e^(-rT) of the last direct call, in hundredths
\* of a price tick.
ParityForward ==
    LastMarket.spot * Exp(-(LastMarket.dividend_yield * LastParams.time_to_expiry))
    - LastParams.strike * Exp(-(LastMarket.rate * LastParams.time_to_expiry))

CallAt(K) ==
    price_and_greeks("call", LastMarket.spot, K, LastMarket.rate, LastMarket.dividend_yield,
                     LastMarket.vol, LastParams.time_to_expiry)

\* C18: for strike_short > strike_long call_spread_price_and_greeks returns
\* the price and every Greek of the call at strike_long minus those of the
\* call at strike_short, as price_and_greeks gives them on the same inputs
\* (and raises where price_and_greeks raises); for strike_short <=
\* strike_long it raises and returns nothing.
C18_CallSpreadIsDifference ==
    LastDirect("call_spread_price_and_greeks") =>
        LET long_call == CallAt(LastParams.strike_long)
            short_call == CallAt(LastParams.strike_short)
        IN  IF LastParams.strike_short <= LastParams.strike_long
                THEN pc = "raised" /\ ~ret.ok /\ ret.error = "strike_short must be > strike_long"
            ELSE IF long_call.ok /\ short_call.ok
                THEN /\ pc = "returned" /\ ret.ok
                     /\ ret.price = long_call.val - short_call.val
                     /\ \A g \in GreekNames :
                            ret.greeks[g] = long_call.greeks[g] - short_call.greeks[g]
            ELSE pc = "raised" /\ ~ret.ok

\* A spread before expiry whose price and delta, gamma and theta are not 0.
C18_Witness ==
    /\ LastDirect("call_spread_price_and_greeks")
    /\ LastParams.strike_short > LastParams.strike_long
    /\ LastParams.time_to_expiry > 0
    /\ pc = "returned"
    /\ ret.price # 0
    /\ ret.greeks.delta # 0
    /\ ret.greeks.theta # 0
    /\ CallAt(LastParams.strike_short).val # 0

\* ------------------------------------------------------------------- C19
\* The last direct call priced an American put on the lattice.
LastAmericanPut ==
    /\ LastDirect("binomial_crr_price")
    /\ LastParams.option_type = "put"
    /\ LastParams.american
    /\ lastEval.ok

\* The European put of the same lattice: the inputs and steps of the last
\* direct call, without early exercise.
EuropeanLatticePut ==
    binomial_crr_price("put", LastMarket.spot, LastParams.strike, LastMarket.rate,
                       LastMarket.dividend_yield, LastMarket.vol, LastParams.time_to_expiry,
                       LastParams.steps, FALSE)

\* The closed-form European put on the inputs of the last direct call.
ClosedFormPut ==
    price_and_greeks("put", LastMarket.spot, LastParams.strike, LastMarket.rate,
                     LastMarket.dividend_yield, LastMarket.vol, LastParams.time_to_expiry)

\* The slack of the comparison, 0.05, in price ticks, and the number of
\* steps from which the comparison is made.
Slack == 5
ManySteps == 2

Num(n) == <<"num", n>>
Str(x) == <<"str", x>>

\* to_jsonable: JSON-native values as they are, dates as their ISO string.
to_jsonable(x) == IF x[1] = "date" THEN <<"str", x[2]>> ELSE x

\* _dumps(payload): the JSON text, held as the value it encodes.
dumps(payload) == [f \in DOMAIN payload |-> to_jsonable(payload[f])]

\* json.loads of a stored text.
json_loads(text) == text

NoUser == "none"
NoCsv == "none"
Users == {NoUser, "u1", "u2"}

\* str(uuid.uuid4()): an id no stored run carries.
uuid4(rs) ==
    CHOOSE n \in 1..(Len(rs) + 1) : \A j \in 1..Len(rs) : rs[j].run_id # n

\* db.add(rec) without db.commit(): the row is lost with the session.
create_run_without_commit(rs, run_type, input_payload, output_payload, result_csv, run_id, user_id) ==
    [runs |-> rs, rid |-> IF run_id # 0 THEN run_id ELSE uuid4(rs)]

\* create_run: one RunRecord added and committed; the run id is the one
\* given (0 for None) or a new one.
create_run(rs, run_type, input_payload, output_payload, result_csv, run_id, user_id) ==
    LET rid == IF run_id # 0 THEN run_id ELSE uuid4(rs)
        rec == [id |-> Len(rs) + 1, run_id |-> rid, run_type |-> run_type,
                user_id |-> user_id, input_json |-> dumps(input_payload),
                output_json |-> dumps(output_payload), result_csv |-> result_csv]
    IN  [runs |-> Append(rs, rec), rid |-> rid]

\* "RunRecord.user_id == user_id or RunRecord.user_id IS NULL", applied when
\* a user id is given.
UserFilter(rec, user_id) ==
    user_id = NoUser \/ rec.user_id = user_id \/ rec.user_id = NoUser

Reverse(seq) == [j \in 1..Len(seq) |-> seq[Len(seq) + 1 - j]]

\* list_runs: filter, newest first (created_at, id descending), then
\* offset and limit.
list_runs(rs, limit, offset, run_type, user_id) ==
    LET q == SelectSeq(rs, LAMBDA r : (run_type = "" \/ r.run_type = run_type)
                                       /\ UserFilter(r, user_id))
        ordered == Reverse(q)
    IN  SubSeq(ordered, offset + 1, Min(Len(ordered), offset + limit))

\* get_run: the first row with the run id, or None (a row with id 0).
NoRecord == [id |-> 0]
get_run(rs, run_id, user_id) ==
    LET q == SelectSeq(rs, LAMBDA r : r.run_id = run_id /\ UserFilter(r, user_id))
    IN  IF Len(q) = 0 THEN NoRecord ELSE q[1]

\* -------------------------------------------------------- api/endpoints
\* limit: int = 20 and min(limit, 200) of api_list_runs, on the scale of
\* MaxRuns.
default_limit == 2
max_limit == 3

VanillaRequests ==
    { [option_type |-> Str(ot), spot |-> Num(10000), strike |-> Num(10500), rate |-> Num(3),
       dividend_yield |-> Num(1), vol |-> Num(v), time_to_expiry |-> Num(16),
       quantity |-> Num(3)] : ot \in {"call"}, v \in {0, 2} }

pricing == <<inputs, pc, calls, i, acc, ret, legLocals, lastEval, mcLog, gridEvals, started>>

\* POST /pricing/vanilla: 400 and no run when the pricer raises; else the
\* run is stored under a new run id, which the response carries.
PriceVanilla ==
    /\ Len(runs) < MaxRuns
    /\ \E req \in VanillaRequests, user_id \in Users :
        LET res == price_and_greeks(req.option_type[2], req.spot[2], req.strike[2], req.rate[2],
                                    req.dividend_yield[2], req.vol[2], req.time_to_expiry[2])
            run_id == uuid4(runs)
            response == [run_id |-> Num(run_id), price_per_unit |-> Num(res.val),
                         price_total |-> Num(res.val * req.quantity[2])]
            stored == create_run(runs, "vanilla", req, response, NoCsv, run_id, user_id)
        IN  IF ~res.ok THEN
                /\ resp' = [kind |-> "error", status |-> 400]
                /\ UNCHANGED <<runs, issued>>
            ELSE
                /\ runs' = stored.runs
                /\ resp' = [kind |-> "response", status |-> 200, run_id |-> run_id]
                /\ issued' = Append(issued, [run_id |-> run_id, run_type |-> "vanilla",
                                             input |-> req, user_id |-> user_id])
    /\ UNCHANGED <<pricing, library>>

\* ---------------------------------------------------- api/endpoints/batch.py
\* A cell of an uploaded row is <<"num", n>> (text that float() reads as n)
\* or <<"str", text>> (any other text, "" for an empty or missing cell).
Required(kind) ==
    IF kind = "vanilla"
    THEN <<"option_type", "spot", "strike", "rate", "dividend_yield", "vol", "time_to_expiry",
           "quantity">>
    ELSE <<"spot", "strike_long", "strike_short", "rate", "dividend_yield", "vol",
           "time_to_expiry", "quantity">>

RunType(kind) == IF kind = "vanilla" THEN "batch_vanilla_csv" ELSE "batch_call_spread_csv"

\* _as_float(row, key)
as_float(row, key) ==
    IF key \notin DOMAIN row THEN [ok |-> FALSE, val |-> 0, err |-> "KeyError"]
    ELSE IF row[key][1] = "str" /\ row[key][2] = ""
        THEN [ok |-> FALSE, val |-> 0, err |-> "Missing value for " \o key]
    ELSE IF row[key][1] # "num"
        THEN [ok |-> FALSE, val |-> 0, err |-> "could not convert string to float"]
    ELSE [ok |-> TRUE, val |-> row[key][2], err |-> ""]

\* _as_str(row, key).lower()
as_str(row, key) ==
    IF key \notin DOMAIN row THEN [ok |-> FALSE, val |-> "", err |-> "KeyError"]
    ELSE [ok |-> TRUE, val |-> LowerStrip(row[key][2]), err |-> ""]

\* The reads of the try block, in order: the first that raises, or 0.
RECURSIVE FirstBadCell(_, _, _)
FirstBadCell(row, keys, n) ==
    IF n > Len(keys) THEN 0
    ELSE IF keys[n] = "option_type"
        THEN (IF as_str(row, keys[n]).ok THEN FirstBadCell(row, keys, n + 1) ELSE n)
    ELSE IF as_float(row, keys[n]).ok THEN FirstBadCell(row, keys, n + 1)
    ELSE n

NoOut == [priced |-> FALSE, price_per_unit |-> 0, price_total |-> 0, greeks |-> ZeroGreeks]

\* The end of the try block: the pricer raised, or the output of the row.
RowOutput(res, quantity) ==
    IF ~res.ok THEN [ok |-> FALSE, out |-> NoOut, err |-> res.err]
    ELSE [ok |-> TRUE, err |-> "",
          out |-> [priced |-> TRUE, price_per_unit |-> res.val,
                   price_total |-> res.val * quantity, greeks |-> res.greeks]]

\* The try block of one row: the reads, the pricer, the output.
TryRow(kind, row) ==
    LET keys == Required(kind)
        bad == FirstBadCell(row, keys, 1)
    IN  IF bad # 0 THEN
            [ok |-> FALSE, out |-> NoOut,
             err |-> IF keys[bad] = "option_type" THEN as_str(row, keys[bad]).err
                     ELSE as_float(row, keys[bad]).err]
        ELSE
            RowOutput(IF kind = "vanilla"
                      THEN price_and_greeks(as_str(row, "option_type").val, row.spot[2],
                                            row.strike[2], row.rate[2], row.dividend_yield[2],
                                            row.vol[2], row.time_to_expiry[2])
                      ELSE call_spread_price_and_greeks(row.spot[2], row.strike_long[2],
                                                        row.strike_short[2], row.rate[2],
                                                        row.dividend_yield[2], row.vol[2],
                                                        row.time_to_expiry[2]),
                      row.quantity[2])

\* The status and the error text are carried over from the row before.
IterStartNoReset(loc) ==
    [loc EXCEPT !.total = @ + 1]

\* The head of the loop body: total += 1, status = "ok", err = "".
IterStart(loc) ==
    [loc EXCEPT !.total = @ + 1, !.status = "ok", !.err = ""]

\* "ok += 1" at the end of the try block, or the except block: status
\* "error", the text of the exception, failed += 1.
RowCount(l0, t) ==
    IF t.ok THEN [l0 EXCEPT !.out = t.out, !.ok = @ + 1]
    ELSE [l0 EXCEPT !.status = "error", !.err = t.err, !.out = t.out, !.failed = @ + 1]

\* "results.append(BatchRowResult(...))" with the locals as they stand.
RowAppend(l1, kind, idx, row) ==
    LET keys == Required(kind)
    IN  [l1 EXCEPT !.results =
            Append(@, [row_index |-> idx, status |-> l1.status, error |-> l1.err,
                       input |-> [n \in 1..Len(keys) |->
                                     IF keys[n] \in DOMAIN row THEN row[keys[n]] ELSE Str("")],
                       output |-> l1.out])]

\* One pass of "for idx, row in enumerate(reader, start=1)" on the locals.
BatchRow(loc, kind, idx, row) ==
    RowAppend(RowCount(IterStart(loc), TryRow(kind, row)), kind, idx, row)

RECURSIVE BatchLoop(_, _, _, _)
BatchLoop(loc, kind, rows, idx) ==
    IF idx > Len(rows) THEN loc
    ELSE BatchLoop(BatchRow(loc, kind, idx, rows[idx]), kind, rows, idx + 1)

BatchLocals ==
    [total |-> 0, ok |-> 0, failed |-> 0, status |-> "", err |-> "", out |-> NoOut,
     results |-> <<>>]

\* "preview = results[: min(50, len(results))]"
preview_rows == 50

\* The end of a batch endpoint: the summary, the stored run, the response.
BatchStore(loc, kind, file, rs, user_id) ==
    LET summary == [total_rows |-> loc.total, success_rows |-> loc.ok,
                    failed_rows |-> loc.failed]
        input_payload == [filename |-> Str(file.filename), kind |-> Str(kind)]
        stored == create_run(rs, RunType(kind), input_payload,
                             [summary |-> <<"obj", summary>>,
                              results |-> <<"list", loc.results>>],
                             "csv", 0, user_id)
    IN  [status |-> 200, detail |-> "", runs |-> stored.runs, run_id |-> stored.rid,
         summary |-> summary, input |-> input_payload,
         preview |-> SubSeq(loc.results, 1, Min(preview_rows, Len(loc.results)))]

\* The body of a batch endpoint on an uploaded file: 400 for an empty file
\* or a header without the required columns; else the rows, the stored run
\* and the response.
batch_csv(kind, file, rs, user_id) ==
    LET keys == Required(kind)
        missing == { n \in 1..Len(keys) : keys[n] \notin file.columns }
    IN  IF file.columns = {} THEN [status |-> 400, detail |-> "Empty file", runs |-> rs]
        ELSE IF missing # {} THEN [status |-> 400, detail |-> "Missing columns", runs |-> rs]
        ELSE BatchStore(BatchLoop(BatchLocals, kind, file.rows, 1), kind, file, rs, user_id)

\* The HTTP error, or the stored run and the BatchResponse.
BatchRespond(r, kind, file, user_id) ==
    IF r.status # 200 THEN
        /\ resp' = [kind |-> "error", status |-> r.status]
        /\ UNCHANGED <<runs, issued>>
    ELSE
        /\ runs' = r.runs
        /\ resp' = [kind |-> "response", status |-> 200, run_id |-> r.run_id,
                    batch |-> kind, file |-> file, summary |-> r.summary,
                    preview |-> r.preview]
        /\ issued' = Append(issued, [run_id |-> r.run_id, run_type |-> RunType(kind),
                                     input |-> r.input, user_id |-> user_id])

\* POST /batch/vanilla/csv or /batch/call-spread/csv with one of the files.
BatchCsv(kind, files) ==
    /\ Len(runs) < MaxRuns
    /\ \E file \in files, user_id \in Users :
        BatchRespond(batch_csv(kind, file, runs, user_id), kind, file, user_id)
    /\ UNCHANGED <<pricing, library>>

VanillaRow(ot, spot, vol, quantity) ==
    [option_type |-> Str(ot), spot |-> spot, strike |-> Num(10500), rate |-> Num(3),
     dividend_yield |-> Num(1), vol |-> vol, time_to_expiry |-> Num(16), quantity |-> quantity]

VanillaColumns == {"option_type", "spot", "strike", "rate", "dividend_yield", "vol",
                   "time_to_expiry", "quantity"}

\* The file of the runs: a row that prices and a row with an invalid vol.
RunFiles ==
    { [filename |-> "rows.csv", columns |-> VanillaColumns,
       rows |-> <<VanillaRow("call", Num(10000), Num(2), Num(1)),
                  VanillaRow("call", Num(10000), Num(0), Num(1))>>] }

\* POST /batch/vanilla/csv: rows may fail one by one, the call succeeds; the
\* run id is the one create_run makes.
BatchVanillaCsv == BatchCsv("vanilla", RunFiles)

\* GET /runs/{run_id}
ApiGetRun ==
    /\ \E run_id \in 1..(MaxRuns + 1), user_id \in Users :
        LET rec == get_run(runs, run_id, user_id)
        IN  resp' = IF rec = NoRecord THEN [kind |-> "error", status |-> 404]
                    ELSE [kind |-> "run", status |-> 200, run_id |-> rec.run_id,
                          run_type |-> rec.run_type, input |-> json_loads(rec.input_json),
                          has_result_csv |-> rec.result_csv # NoCsv]
    /\ UNCHANGED <<runs, issued, pricing, library>>

\* GET /runs
ApiListRuns ==
    /\ \E limit \in {0, default_limit, max_limit + 1}, offset \in {-1, 0, 1},
           run_type \in {"", "vanilla"}, user_id \in {NoUser, "u1"} :
        LET lim == Max(1, Min(limit, max_limit))
            off == Max(0, offset)
            rows == list_runs(runs, lim, off, run_type, user_id)
        IN  resp' = [kind |-> "list", status |-> 200, limit |-> lim, offset |-> off,
                     run_type |-> run_type, user_id |-> user_id,
                     items |-> [j \in 1..Len(rows) |-> rows[j].run_id]]
    /\ UNCHANGED <<runs, issued, pricing, library>>

InitRuns ==
    /\ market = Mkt(10000, 3, 1, 2)
    /\ legs = <<>>
    /\ strict = FALSE
    /\ InitLocals

NextRuns ==
    \/ PriceVanilla
    \/ BatchVanillaCsv
    \/ ApiGetRun
    \/ ApiListRuns

SpecRuns == InitRuns /\ [][NextRuns]_vars

\* ------------------------------------------------------------------- C20
\* The runs newer than row j that a query without filters lists before it.
Newer(j) == Len(runs) - j

\* The run ids of the page of GET /runs without filters.
PageIds(limit, offset) ==
    LET rows == list_runs(runs, limit, offset, "", NoUser)
    IN  { rows[n].run_id : n \in 1..Len(rows) }

\* What C20 says of get_run for the j-th successful call: the record is
\* there, once, with the run type and the input payload of the call.
Retrievable(j) ==
    LET e == issued[j]
        rec == get_run(runs, e.run_id, NoUser)
    IN  /\ CountIn(runs, LAMBDA r : r.run_id = e.run_id) = 1
        /\ rec # NoRecord
        /\ rec = runs[j]
        /\ rec.run_type = e.run_type
        /\ json_loads(rec.input_json) = e.input
        /\ \A u \in Users :
               (get_run(runs, e.run_id, u) # NoRecord) <=> (u = NoUser \/ e.user_id \in {u, NoUser})

MaxRows == 3

\* Rows of a vanilla file: two that price, one with an empty spot cell, one
\* with text for the vol, one the pricer rejects.
VanillaRows ==
    { VanillaRow("call", Num(10000), Num(2), Num(2)),
      VanillaRow("put", Num(10000), Num(2), Num(1)),
      VanillaRow("call", Str(""), Num(2), Num(1)),
      VanillaRow("call", Num(10000), Str("abc"), Num(1)),
      VanillaRow("put", Num(10000), Num(0), Num(1)) }

SpreadRow(spot, strike_short, quantity) ==
    [spot |-> spot, strike_long |-> Num(10000), strike_short |-> strike_short, rate |-> Num(3),
     dividend_yield |-> Num(1), vol |-> Num(2), time_to_expiry |-> Num(16),
     quantity |-> quantity]

SpreadColumns == {"spot", "strike_long", "strike_short", "rate", "dividend_yield", "vol",
                  "time_to_expiry", "quantity"}

\* Rows of a call spread file: one that prices, one with equal strikes, one
\* with an empty quantity cell, one with text for the spot.
SpreadRows ==
    { SpreadRow(Num(10000), Num(10500), Num(2)),
      SpreadRow(Num(10000), Num(10000), Num(1)),
      SpreadRow(Num(10000), Num(10500), Str("")),
      SpreadRow(Str("n/a"), Num(10500), Num(1)) }

\* The files of at most n rows of S, a row as often as it likes.
RowLists(S, n) == UNION { [1..m -> S] : m \in 0..n }

BatchFiles(kind) ==
    { [filename |-> "rows.csv",
       columns |-> IF kind = "vanilla" THEN VanillaColumns ELSE SpreadColumns, rows |-> rows] :
         rows \in RowLists(IF kind = "vanilla" THEN VanillaRows ELSE SpreadRows, MaxRows) }
    \cup { [filename |-> "empty.csv", columns |-> {}, rows |-> <<>>],
           [filename |-> "short.csv", columns |-> {"spot", "rate"}, rows |-> <<>>] }

BatchVanillaUpload ==
    /\ Len(runs) = 0
    /\ BatchCsv("vanilla", BatchFiles("vanilla"))

BatchCallSpreadUpload ==
    /\ Len(runs) = 0
    /\ BatchCsv("call_spread", BatchFiles("call_spread"))

NextBatch ==
    \/ BatchVanillaUpload
    \/ BatchCallSpreadUpload
    \/ ApiGetRun

SpecBatch == InitRuns /\ [][NextBatch]_vars

\* The stored output of the last run, when it is a batch run.
BatchStored == Len(runs) > 0 /\ runs[Len(runs)].run_type \in {"batch_vanilla_csv", "batch_call_spread_csv"}
LastResults == json_loads(runs[Len(runs)].output_json).results[2]
LastSummary == json_loads(runs[Len(runs)].output_json).summary[2]
LastKind == IF runs[Len(runs)].run_type = "batch_vanilla_csv" THEN "vanilla" ELSE "call_spread"

\* What the endpoint makes of the row when it is the only row of the file,
\* but for the row index.
RowAlone(kind, row, idx) ==
    [BatchLoop(BatchLocals, kind, <<row>>, 1).results[1] EXCEPT !.row_index = idx]

\* The file of the response that reported the last run.
Uploaded == resp.kind = "response" /\ "batch" \in DOMAIN resp

FDLeg == legs[i]
FDTime == Get(FDLeg.params, "time_to_expiry", 0)
FDCalls == FDPoints(market.spot, market.rate, market.vol, FDTime, Scheme(FDLeg.method))

\* C22: finite_difference_greeks evaluates only when spot, vol and time to
\* expiry are positive, and then every evaluation of the price function it
\* makes is at a positive spot, a positive vol and a positive time to
\* expiry; the theta evaluation is at time_to_expiry - dT with
\* 0 < dT <= time_to_expiry / 2.
C22_EvaluationsStayValid ==
    [][pc = "fd" =>
        /\ market.spot > 0 /\ market.vol > 0 /\ FDTime > 0
        /\ lastEval'.key.market.spot > 0
        /\ lastEval'.key.market.vol > 0
        /\ lastEval'.key.params.time_to_expiry > 0
        /\ lastEval'.key.params.time_to_expiry >= FDTime - BumpT(FDTime)
        /\ BumpT(FDTime) > 0 /\ 2 * BumpT(FDTime) <= FDTime
        /\ FDCalls[k].tag = "p_shorter" =>
               lastEval'.key.params.time_to_expiry = FDTime - BumpT(FDTime)]_vars

\* The down-bump of a vol no larger than the bump has just been evaluated at
\* the floor, for a leg whose time bump is the capped one.
C22_Witness ==
    /\ pc = "fd" /\ k > 1
    /\ FDCalls[k - 1].tag = "pv_dn"
    /\ market.vol <= BumpV
    /\ lastEval.key.market.vol = 1
    /\ BumpT(FDTime) < time_abs_bump

\* ------------------------------------------------------------------- C23
\* finite_difference_greeks has returned from a positive spot, vol and time
\* to expiry: the evaluations it made, by name.
FDDone == pc = "base" /\ FDEntry(market.spot, market.vol, FDTime) = "evaluate"
Evaluations == DOMAIN fdvals
ForwardLeg == FDLeg.method \in {"mc_discrete", "mc_bridge", "arithmetic_mc"}

\* C23: for a Monte Carlo leg (forward scheme) finite_difference_greeks
\* makes one up-bumped evaluation each for vol and rate, differenced against
\* the base price, and for spot the up-bump (delta against the base price)
\* and also the down-bump, which gamma takes; for any other leg (central
\* scheme) it makes the up- and the down-bump of spot, vol and rate.
C23_EvaluationsPerScheme ==
    FDDone =>
        /\ {"p0", "p_up", "p_dn", "pv_up", "pr_up", "p_shorter"} \subseteq Evaluations
        /\ ForwardLeg =>
            /\ Evaluations = {"p0", "p_up", "p_dn", "pv_up", "pr_up", "p_shorter"}
            /\ fd.delta = (fdvals["p_up"] - fdvals["p0"]) \div BumpS(market.spot)
            /\ fd.vega = (fdvals["pv_up"] - fdvals["p0"]) \div BumpV
            /\ fd.rho = (fdvals["pr_up"] - fdvals["p0"]) \div BumpR
        /\ ~ForwardLeg =>
            /\ Evaluations = {"p0", "p_up", "p_dn", "pv_up", "pv_dn", "pr_up", "pr_dn",
                              "p_shorter"}
            /\ fd.delta = (fdvals["p_up"] - fdvals["p_dn"]) \div (2 * BumpS(market.spot))
            /\ fd.vega = (fdvals["pv_up"] - fdvals["pv_dn"]) \div (2 * BumpV)
            /\ fd.rho = (fdvals["pr_up"] - fdvals["pr_dn"]) \div (2 * BumpR)
        /\ fd.gamma = (fdvals["p_up"] - 2 * fdvals["p0"] + fdvals["p_dn"])
                          \div (BumpS(market.spot) * BumpS(market.spot))

\* A Monte Carlo leg whose finite differences are done, with a gamma that
\* the down-bumped price moved.
C23_Witness ==
    /\ FDDone /\ ForwardLeg
    /\ "p_dn" \in Evaluations
    /\ fdvals["p_dn"] # fdvals["p0"]

\* As stated: the forward scheme makes no down-bumped evaluation.
C23_ForwardNoDownBump ==
    (FDDone /\ ForwardLeg) => Evaluations \cap {"p_dn", "pv_dn", "pr_dn"} = {}

\* ------------------------------------------------------------------- C24
\* The last call went through the backward induction of the lattice.
LastInduction ==
    /\ LastDirect("binomial_crr_price")
    /\ lastEval.ok
    /\ LastParams.time_to_expiry > 0

\* The constants of the lattice of the last call.
LastNodes ==
    [option_type |-> LastParams.option_type, spot |-> LastMarket.spot,
     strike |-> LastParams.strike, u |-> LastLattice.u, d |-> LastLattice.d,
     disc |-> LastLattice.disc, p |-> ClampP(RawP(LastLattice)),
     american |-> LastParams.american]

\* The reference lattice, one array per level: the value of node (lvl, j),
\* j up-moves after lvl steps, from the two nodes of level lvl + 1 above it.
RECURSIVE ReferenceNode(_, _, _, _)
ReferenceNode(c, steps, lvl, j) ==
    LET intrinsic == Intrinsic(c.option_type, NodeSpot(c.spot, c.u, c.d, j, lvl), c.strike)
    IN  IF lvl = steps THEN intrinsic
        ELSE LET up == ReferenceNode(c, steps, lvl + 1, j + 1)
                 down == ReferenceNode(c, steps, lvl + 1, j)
                 continuation == (c.disc * (c.p * up + (100 - c.p) * down)) \div 10000
             IN  IF c.american THEN Max(intrinsic, continuation) ELSE continuation

\* C24: the price binomial_crr_price returns from its single array is the
\* value of node (0, 0) of the reference lattice, whose node (i, j) is
\* disc * (p * V(i+1, j+1) + (1 - p) * V(i+1, j)), or the larger of that and
\* the intrinsic value at spot * u^j * d^(i-j) when american.
C24_SingleArrayIsLattice ==
    LastInduction => lastEval.val = ReferenceNode(LastNodes, LastParams.steps, 0, 0)

\* An American option on eight steps whose price is above its European
\* lattice price and above its intrinsic value: exercise at inner nodes.
C24_Witness ==
    /\ LastInduction
    /\ LastParams.steps = 8
    /\ LastParams.american
    /\ lastEval.val = ReferenceNode(LastNodes, 8, 0, 0)
    /\ lastEval.val > ReferenceNode([LastNodes EXCEPT !.american = FALSE], 8, 0, 0)
    /\ lastEval.val > Intrinsic(LastParams.option_type, LastMarket.spot, LastParams.strike)

\* ------------------------------------------------------- knock-out paths
\* Draws a caller supplies: two paths of two and of three steps.  The first
\* path of each goes beyond either barrier and comes back.
PathDraws ==
    { None,
      [shape |-> <<2, 2>>, data |-> <<<<2, -2>>, <<-2, 2>>>>],
      [shape |-> <<2, 3>>, data |-> <<<<2, -2, 0>>, <<0, -2, 2>>>>] }

CrossingDraws ==
    { None,
      [shape |-> <<2, 2>>, data |-> <<<<50, 50>>, <<99, 0>>>>],
      [shape |-> <<2, 3>>, data |-> <<<<99, 99, 99>>, <<50, 99, 0>>>>] }

Seeds == 0..15

KnockoutArgs(ot, K, B, dir, steps, seed, bridge, z, u) ==
    [option_type |-> ot, strike |-> K, time_to_expiry |-> 16,
     barrier_level |-> B, barrier_direction |-> dir,
     paths |-> 2, steps |-> steps, seed |-> seed,
     brownian_bridge |-> bridge, z |-> z, u |-> u]

\* barrier_knockout_mc_price called on two paths, with draws from a seed
\* or supplied, a barrier on either side of the spot.
KnockoutCall ==
    /\ CanCall
    /\ \E ot \in {"call", "put"}, dir \in {"up", "down"}, steps \in {2, 3}, bridge \in BOOLEAN,
           z \in PathDraws :
        \E seed \in IF z = None THEN Seeds ELSE {3},
           u \in IF bridge /\ z # None THEN CrossingDraws ELSE {None} :
            LET m == Mkt(10000, 3, 1, 2)
                K == IF ot = "call" THEN 9500 ELSE 10500
                B == IF dir = "up" THEN 10500 ELSE 9600
            IN  Direct("barrier_knockout_mc_price", m,
                       KnockoutArgs(ot, K, B, dir, steps, seed, bridge, z, u),
                       barrier_knockout_mc_price(ot, m.spot, K, B, dir, m.rate,
                                                 m.dividend_yield, m.vol, 16, 2, steps, seed,
                                                 bridge, z, u))

NextBarrier ==
    \/ KnockoutCall
    \/ DirectBarrier

SpecBarrier == InitDirect /\ [][NextBarrier]_vars

\* The last call simulated its paths.
Simulated ==
    /\ LastDirect("barrier_knockout_mc_price")
    /\ lastEval.ok
    /\ lastEval.rng \in {"generated", "supplied"}

\* The draws the last call used: its own from the seed, or the caller's.
LastZ ==
    IF LastParams.z = None
    THEN standard_normal(default_rng(LastParams.seed), LastParams.paths, LastParams.steps)
    ELSE LastParams.z
LastU ==
    IF LastParams.z = None
    THEN random(RngAdvance(default_rng(LastParams.seed), LastParams.paths * LastParams.steps),
                LastParams.paths, LastParams.steps)
    ELSE LastParams.u

\* Path p of the last call after its first n steps, monitored with or
\* without the Brownian bridge.
PathAfter(p, n, bridge) ==
    LET dt == LastParams.time_to_expiry \div LastParams.steps
        vol == LastMarket.vol
        c == [dir |-> LastParams.barrier_direction, B |-> LastParams.barrier_level, steps |-> n,
              drift |-> (LastMarket.rate - LastMarket.dividend_yield - (vol * vol) \div 2) * dt,
              diff |-> vol * Sqrt(dt), sigma2_dt |-> vol * vol * dt, bridge |-> bridge]
    IN  BarrierPath(c, LastZ.data[p], IF bridge THEN LastU.data[p] ELSE <<>>, 1,
                    [s |-> LastMarket.spot, alive |-> TRUE])

LastPaths == 1..LastParams.paths
Survivors(bridge) == { p \in LastPaths : PathAfter(p, LastParams.steps, bridge).alive }

\* The call or put payoff at the end of path p.
TerminalPayoff(p) ==
    LET s == PathAfter(p, LastParams.steps, LastParams.brownian_bridge).s
    IN  IF LastParams.option_type = "call" THEN Max(s - LastParams.strike, 0)
        ELSE Max(LastParams.strike - s, 0)

\* The price side of the barrier.
SafeSide(s) ==
    IF LastParams.barrier_direction = "up" THEN s < LastParams.barrier_level
    ELSE s > LastParams.barrier_level

\* ------------------------------------------------------------------- C25
\* C25: in barrier_knockout_mc_price a path dead after some step is dead
\* after every later step, with or without the Brownian bridge and wherever
\* its price goes; it adds 0 to the mean, and the price is the discounted
\* mean over all paths of the payoffs of the paths alive after the last step.
C25_DeadStaysDead ==
    Simulated =>
        LET mode == LastParams.brownian_bridge
            alive == Survivors(mode)
            payoff == [p \in LastPaths |-> IF p \in alive THEN TerminalPayoff(p) ELSE 0]
        IN  /\ \A p \in LastPaths : \A n \in 1..LastParams.steps : \A later \in n..LastParams.steps :
                ~PathAfter(p, n, mode).alive => ~PathAfter(p, later, mode).alive
            /\ lastEval.val = MulFix(SumF(payoff, LastParams.paths) \div LastParams.paths,
                                     Exp(-(LastMarket.rate * LastParams.time_to_expiry)))

\* A path knocked out at its first step ends on the safe side of the barrier
\* and in the money, and is dead; another path is alive and pays.
C25_Witness ==
    /\ Simulated
    /\ \E p \in LastPaths :
        /\ ~PathAfter(p, 1, LastParams.brownian_bridge).alive
        /\ SafeSide(PathAfter(p, LastParams.steps, LastParams.brownian_bridge).s)
        /\ TerminalPayoff(p) > 0
        /\ p \notin Survivors(LastParams.brownian_bridge)
    /\ Survivors(LastParams.brownian_bridge) # {}
    /\ lastEval.val > 0

\* ------------------------------------------------------------------- C26
\* The price of the last call's inputs under discrete monitoring.
DiscretePrice ==
    barrier_knockout_mc_price(LastParams.option_type, LastMarket.spot, LastParams.strike,
                              LastParams.barrier_level, LastParams.barrier_direction,
                              LastMarket.rate, LastMarket.dividend_yield, LastMarket.vol,
                              LastParams.time_to_expiry, LastParams.paths, LastParams.steps,
                              LastParams.seed, FALSE, LastParams.z, LastParams.u)

\* C26: on the same seed (or the same supplied draws), paths, steps, market
\* and parameters, the paths that survive with the Brownian bridge are among
\* those that survive discrete monitoring, and the Brownian-bridge price is
\* no larger than the discrete price.
C26_BridgeBelowDiscrete ==
    (Simulated /\ LastParams.brownian_bridge) =>
        /\ Survivors(TRUE) \subseteq Survivors(FALSE)
        /\ DiscretePrice.ok
        /\ lastEval.val <= DiscretePrice.val

\* The bridge has knocked out a path that discrete monitoring keeps, on
\* draws made from the seed, and the price is lower for it but not zero.
C26_Witness ==
    /\ Simulated /\ LastParams.brownian_bridge
    /\ LastParams.z = None
    /\ Survivors(TRUE) # Survivors(FALSE)
    /\ Survivors(TRUE) # {}
    /\ 0 < lastEval.val /\ lastEval.val < DiscretePrice.val

\* ------------------------------------------------------------------- C27
\* The cells of the grid the last call returned.
GridCells ==
    { <<vi, si>> : vi \in 1..Len(ret.request.vol_shifts),
                   si \in 1..Len(ret.request.spot_shifts_pct) }
GridCellMarket(c) ==
    CellMarket(market, ret.request.spot_shifts_pct[c[2]], ret.request.vol_shifts[c[1]],
               ret.request.rate_shift_bps)

\* The sum of price * quantity over the legs that price at m.
RECURSIVE PricedTotal(_, _)
PricedTotal(m, n) ==
    IF n = 0 THEN 0
    ELSE PricedTotal(m, n - 1)
         + (IF legs[n].quantity # 0 /\ CellEval(m, legs[n]).ok
            THEN CellEval(m, legs[n]).val * legs[n].quantity ELSE 0)

\* C27: whatever the shifts, scenario_grid_totals returns its grid; the vol
\* of every evaluation it makes is positive; and every cell is the total of
\* the legs that price in it, a leg that fails there adding 0 to that cell
\* alone.
C27_GridNeverFails ==
    ret.kind = "grid" =>
        /\ \A e \in gridEvals : e.key.market.vol # NaN /\ e.key.market.vol > 0
        /\ \A c \in GridCells :
            ret.grid[c[1]][c[2]] = PricedTotal(GridCellMarket(c), Len(legs))

\* The cells at numbers: the vol is clamped to the floor, and a leg that
\* fails in a cell is left out of that cell alone.
C27_HoldsForNumbers ==
    (ret.kind = "grid" /\ \A vi \in 1..Len(ret.request.vol_shifts) : ret.request.vol_shifts[vi] # NaN) =>
        \A c \in GridCells :
            /\ GridCellMarket(c).vol > 0
            /\ ret.grid[c[1]][c[2]] = PricedTotal(GridCellMarket(c), Len(legs))

\* ------------------------------------------------------------------- C28
\* price_portfolio_with_greeks has returned (strict=False) on a valid market.
PortfolioReturned ==
    /\ pc = "returned" /\ ret.kind = "portfolio"
    /\ ~strict
    /\ market.spot > 0 /\ market.vol > 0

\* The cell of scenario_grid_totals at zero spot, vol and rate shift.
BaseCell == CellTotal(CellMarket(market, 0, 0, 0), legs, Len(legs))

\* C28: on a valid market the grid cell at zero shifts equals the
\* total_price of price_portfolio_with_greeks (strict=False) on the same
\* legs, whatever the legs; a Monte Carlo leg priced alone from its seed has
\* the price it has with Greeks through the draw cache.
C28_BaseCellIsPortfolioTotal ==
    PortfolioReturned => ret.total_price = BaseCell

\* The same for legs whose Monte Carlo sizes are not negative.
C28_HoldsForSizedLegs ==
    (PortfolioReturned /\ \A n \in 1..Len(legs) : Get(legs[n].params, "paths", 1) >= 0)
        => ret.total_price = BaseCell

\* --------------------------------------- db/repository.py: portfolios, packs
\* The rows are kept in the order of updated_at: created or updated last,
\* listed first.
MaxRecords == 2

\* str(uuid.uuid4()) for a table keyed by `key`: an id no row carries.
NewId(rows, key) ==
    CHOOSE n \in 1..(Len(rows) + 1) : \A j \in 1..Len(rows) : rows[j][key] # n

\* The rows but the one keyed `id`.
RowsWithout(rows, key, id) == SelectSeq(rows, LAMBDA r : r[key] # id)

create_portfolio(ps, name, definition, portfolio_id, user_id) ==
    LET pid == IF portfolio_id # 0 THEN portfolio_id ELSE NewId(ps, "portfolio_id")
        rec == [portfolio_id |-> pid, name |-> name, user_id |-> user_id,
                definition_json |-> dumps(definition)]
    IN  [rows |-> Append(ps, rec), pid |-> pid]

list_portfolios(ps, limit, offset, user_id) ==
    LET ordered == Reverse(SelectSeq(ps, LAMBDA r : UserFilter(r, user_id)))
    IN  SubSeq(ordered, offset + 1, Min(Len(ordered), offset + limit))

\* The row with the portfolio id, whoever asks.
get_portfolio_unscoped(ps, portfolio_id, user_id) ==
    LET q == SelectSeq(ps, LAMBDA r : r.portfolio_id = portfolio_id)
    IN  IF Len(q) = 0 THEN NoRecord ELSE q[1]

get_portfolio(ps, portfolio_id, user_id) ==
    LET q == SelectSeq(ps, LAMBDA r : r.portfolio_id = portfolio_id /\ UserFilter(r, user_id))
    IN  IF Len(q) = 0 THEN NoRecord ELSE q[1]

\* A row without owner is claimed by the first profile that updates it.
update_portfolio(ps, portfolio_id, name, definition, user_id) ==
    LET rec == get_portfolio(ps, portfolio_id, user_id)
    IN  IF rec = NoRecord THEN [rows |-> ps, ok |-> FALSE]
        ELSE [ok |-> TRUE,
              rows |-> Append(RowsWithout(ps, "portfolio_id", portfolio_id),
                              [rec EXCEPT !.user_id = IF user_id # NoUser /\ @ = NoUser
                                                      THEN user_id ELSE @,
                                          !.name = name,
                                          !.definition_json = dumps(definition)])]

delete_portfolio(ps, portfolio_id, user_id) ==
    LET rec == get_portfolio(ps, portfolio_id, user_id)
    IN  IF rec = NoRecord THEN [rows |-> ps, ok |-> FALSE]
        ELSE [ok |-> TRUE, rows |-> RowsWithout(ps, "portfolio_id", portfolio_id)]

\* "user_id == user_id or (include_shared and user_id IS NULL)", applied
\* when a user id is given.
PackFilter(rec, user_id, include_shared) ==
    \/ user_id = NoUser
    \/ rec.user_id = user_id
    \/ (include_shared /\ rec.user_id = NoUser)

create_stress_pack(ps, name, scenario, pack_id, user_id) ==
    LET pid == IF pack_id # 0 THEN pack_id ELSE NewId(ps, "pack_id")
        rec == [pack_id |-> pid, user_id |-> user_id, name |-> name,
                short_rate_shock_bps |-> Get(scenario, "short_rate_shock_bps", 0)]
    IN  [rows |-> Append(ps, rec), pid |-> pid]

list_stress_packs(ps, limit, offset, user_id, include_shared) ==
    LET ordered == Reverse(SelectSeq(ps, LAMBDA r : PackFilter(r, user_id, include_shared)))
    IN  SubSeq(ordered, offset + 1, Min(Len(ordered), offset + limit))

get_stress_pack(ps, pack_id, user_id, include_shared) ==
    LET q == SelectSeq(ps, LAMBDA r : r.pack_id = pack_id
                                       /\ PackFilter(r, user_id, include_shared))
    IN  IF Len(q) = 0 THEN NoRecord ELSE q[1]

\* The row is looked up with include_shared=False.
update_stress_pack(ps, pack_id, name, scenario, user_id) ==
    LET rec == get_stress_pack(ps, pack_id, user_id, FALSE)
    IN  IF rec = NoRecord THEN [rows |-> ps, ok |-> FALSE]
        ELSE [ok |-> TRUE,
              rows |-> Append(RowsWithout(ps, "pack_id", pack_id),
                              [rec EXCEPT !.user_id = IF user_id # NoUser /\ @ = NoUser
                                                      THEN user_id ELSE @,
                                          !.name = name,
                                          !.short_rate_shock_bps =
                                              Get(scenario, "short_rate_shock_bps", 0)])]

delete_stress_pack(ps, pack_id, user_id) ==
    LET rec == get_stress_pack(ps, pack_id, user_id, FALSE)
    IN  IF rec = NoRecord THEN [rows |-> ps, ok |-> FALSE]
        ELSE [ok |-> TRUE, rows |-> RowsWithout(ps, "pack_id", pack_id)]

\* ------------------------------------------------- calls of the repository
\* A row is created under one name and renamed by every update.
CreatedName == "a"
UpdatedName == "b"
Definitions == { [legs |-> Num(2)] }
Scenarios == { [short_rate_shock_bps |-> 25] }
Ids == 1..MaxRecords

\* The behaviours work on one table at a time.
OnlyPortfolios == Len(runs) = 0 /\ Len(packs) = 0
OnlyPacks == Len(runs) = 0 /\ Len(portfolios) = 0
OnlyRuns == Len(portfolios) = 0 /\ Len(packs) = 0

Called(op, table, id, user_id, found, rows) ==
    [kind |-> "repository", op |-> op, table |-> table, id |-> id, user_id |-> user_id,
     found |-> found, rows |-> rows]

CreatePortfolio ==
    /\ OnlyPortfolios /\ Len(portfolios) < MaxRecords
    /\ \E user_id \in Users :
        LET r == create_portfolio(portfolios, CreatedName, [legs |-> Num(1)], 0, user_id)
        IN  /\ portfolios' = r.rows
            /\ resp' = Called("create", "portfolios", r.pid, user_id, TRUE, <<>>)
    /\ UNCHANGED <<runs, issued, packs, pricing>>

GetPortfolio ==
    /\ OnlyPortfolios
    /\ \E id \in Ids, user_id \in Users :
        LET rec == get_portfolio(portfolios, id, user_id)
        IN  resp' = Called("get", "portfolios", id, user_id, rec # NoRecord,
                           IF rec = NoRecord THEN <<>> ELSE <<rec>>)
    /\ UNCHANGED <<runs, issued, library, pricing>>

ListPortfolios ==
    /\ OnlyPortfolios
    /\ \E user_id \in Users :
        resp' = Called("list", "portfolios", 0, user_id, TRUE,
                       list_portfolios(portfolios, MaxRecords + 1, 0, user_id))
    /\ UNCHANGED <<runs, issued, library, pricing>>

UpdatePortfolio ==
    /\ OnlyPortfolios
    /\ \E id \in Ids, user_id \in Users, definition \in Definitions :
        LET r == update_portfolio(portfolios, id, UpdatedName, definition, user_id)
        IN  /\ portfolios' = r.rows
            /\ resp' = Called("update", "portfolios", id, user_id, r.ok, <<>>)
    /\ UNCHANGED <<runs, issued, packs, pricing>>

DeletePortfolio ==
    /\ OnlyPortfolios
    /\ \E id \in Ids, user_id \in Users :
        LET r == delete_portfolio(portfolios, id, user_id)
        IN  /\ portfolios' = r.rows
            /\ resp' = Called("delete", "portfolios", id, user_id, r.ok, <<>>)
    /\ UNCHANGED <<runs, issued, packs, pricing>>

CreateStressPack ==
    /\ OnlyPacks /\ Len(packs) < MaxRecords
    /\ \E user_id \in Users :
        LET r == create_stress_pack(packs, CreatedName, [short_rate_shock_bps |-> 50], 0, user_id)
        IN  /\ packs' = r.rows
            /\ resp' = Called("create", "stress_packs", r.pid, user_id, TRUE, <<>>)
    /\ UNCHANGED <<runs, issued, portfolios, pricing>>

GetStressPack ==
    /\ OnlyPacks
    /\ \E id \in Ids, user_id \in Users, include_shared \in BOOLEAN :
        LET rec == get_stress_pack(packs, id, user_id, include_shared)
        IN  resp' = [Called("get", "stress_packs", id, user_id, rec # NoRecord,
                            IF rec = NoRecord THEN <<>> ELSE <<rec>>)
                     EXCEPT !.table = IF include_shared THEN @ ELSE "stress_packs_own"]
    /\ UNCHANGED <<runs, issued, library, pricing>>

ListStressPacks ==
    /\ OnlyPacks
    /\ \E user_id \in Users, include_shared \in BOOLEAN :
        resp' = [Called("list", "stress_packs", 0, user_id, TRUE,
                        list_stress_packs(packs, MaxRecords + 1, 0, user_id, include_shared))
                 EXCEPT !.table = IF include_shared THEN @ ELSE "stress_packs_own"]
    /\ UNCHANGED <<runs, issued, library, pricing>>

UpdateStressPack ==
    /\ OnlyPacks
    /\ \E id \in Ids, user_id \in Users, scenario \in Scenarios :
        LET r == update_stress_pack(packs, id, UpdatedName, scenario, user_id)
        IN  /\ packs' = r.rows
            /\ resp' = Called("update", "stress_packs", id, user_id, r.ok, <<>>)
    /\ UNCHANGED <<runs, issued, portfolios, pricing>>

DeleteStressPack ==
    /\ OnlyPacks
    /\ \E id \in Ids, user_id \in Users :
        LET r == delete_stress_pack(packs, id, user_id)
        IN  /\ packs' = r.rows
            /\ resp' = Called("delete", "stress_packs", id, user_id, r.ok, <<>>)
    /\ UNCHANGED <<runs, issued, portfolios, pricing>>

\* create_run, get_run and list_runs of the repository.
CreateRun ==
    /\ OnlyRuns /\ Len(runs) < MaxRecords
    /\ \E user_id \in Users :
        LET r == create_run(runs, "vanilla", [spot |-> Num(10000)], [price |-> Num(700)],
                            NoCsv, 0, user_id)
        IN  /\ runs' = r.runs
            /\ resp' = Called("create", "runs", r.rid, user_id, TRUE, <<>>)
    /\ UNCHANGED <<issued, library, pricing>>

GetRun ==
    /\ OnlyRuns
    /\ \E id \in Ids, user_id \in Users :
        LET rec == get_run(runs, id, user_id)
        IN  resp' = Called("get", "runs", id, user_id, rec # NoRecord,
                           IF rec = NoRecord THEN <<>> ELSE <<rec>>)
    /\ UNCHANGED <<runs, issued, library, pricing>>

ListRuns ==
    /\ OnlyRuns
    /\ \E user_id \in Users :
        resp' = Called("list", "runs", 0, user_id, TRUE,
                       list_runs(runs, MaxRecords + 1, 0, "", user_id))
    /\ UNCHANGED <<runs, issued, library, pricing>>

NextOwners ==
    \/ CreatePortfolio
    \/ GetPortfolio
    \/ ListPortfolios
    \/ UpdatePortfolio
    \/ DeletePortfolio
    \/ CreateStressPack
    \/ GetStressPack
    \/ ListStressPacks
    \/ UpdateStressPack
    \/ DeleteStressPack
    \/ CreateRun
    \/ GetRun
    \/ ListRuns

SpecOwners == InitRuns /\ [][NextOwners]_vars

\* ------------------------------------------------------------------- C29
\* The pack with the id, or the row with id 0.
PackWithId(ps, id) ==
    IF \E j \in 1..Len(ps) : ps[j].pack_id = id
    THEN ps[CHOOSE j \in 1..Len(ps) : ps[j].pack_id = id]
    ELSE NoRecord

\* update_stress_pack is called by a profile on a pack without owner.
ClaimingUpdate ==
    /\ resp'.kind = "repository" /\ resp'.op = "update" /\ resp'.table = "stress_packs"
    /\ resp'.user_id # NoUser
    /\ PackWithId(packs, resp'.id) # NoRecord
    /\ PackWithId(packs, resp'.id).user_id = NoUser

\* C29: an update_stress_pack by a profile on a stored pack whose user_id is
\* NULL is applied and returns True, and the pack's user_id becomes the
\* profile's id.
C29_FirstUpdateClaimsPack ==
    [][ClaimingUpdate =>
        /\ resp'.found
        /\ PackWithId(packs', resp'.id) # NoRecord
        /\ PackWithId(packs', resp'.id).user_id = resp'.user_id]_vars

\* What the code does: the update finds no pack, returns False and changes
\* nothing; the pack stays without owner.
C29_UpdateOfSharedPackRefused ==
    [][ClaimingUpdate => (~resp'.found /\ packs' = packs)]_vars

\* ------------------------------------------------------------------- C30
\* The table a call of the repository worked on, and the id of a row in it.
TableOf(t, rs, ps, ks) == IF t = "runs" THEN rs ELSE IF t = "portfolios" THEN ps ELSE ks
RowId(t, rec) ==
    IF t = "runs" THEN rec.run_id ELSE IF t = "portfolios" THEN rec.portfolio_id ELSE rec.pack_id
RowsOf(seq) == { seq[j] : j \in 1..Len(seq) }

\* The last call was a get or a list issued with a user id.
ScopedRead ==
    /\ resp.kind = "repository"
    /\ resp.op \in {"get", "list"}
    /\ resp.user_id # NoUser

\* No row of another owner is among the rows a scoped read returned.
OwnRowsOnly ==
    ScopedRead => \A r \in RowsOf(resp.rows) : r.user_id \in {resp.user_id, NoUser}

\* The rows without owner that the last read should have returned, had it
\* returned them all: the row asked for, or every row of the table.
SharedRows ==
    { r \in RowsOf(TableOf(resp.table, runs, portfolios, packs)) :
        r.user_id = NoUser /\ (resp.op = "get" => RowId(resp.table, r) = resp.id) }

\* A call issued with a user id leaves the rows of every other owner as
\* they are.
OthersUntouched ==
    (resp'.kind = "repository" /\ resp'.user_id # NoUser) =>
        /\ \A r \in RowsOf(runs) : r.user_id \notin {NoUser, resp'.user_id} => r \in RowsOf(runs')
        /\ \A r \in RowsOf(portfolios) :
            r.user_id \notin {NoUser, resp'.user_id} => r \in RowsOf(portfolios')
        /\ \A r \in RowsOf(packs) : r.user_id \notin {NoUser, resp'.user_id} => r \in RowsOf(packs')

====
